---------------------------- MODULE Spec2Model ----------------------------
(***************************************************************************)
(* A model of the LUMEN SDK (forge-health-ai/lumen-sdk): the hash-linked   *)
(* AuditChain, the Lumen facade that writes to it, and the scoring kernel. *)
(*                                                                         *)
(* Strings are strings; CharCode gives the UTF-16 code unit of a           *)
(* character where the code reads one (the rolling hash, localeCompare,    *)
(* toLowerCase).  A 32-bit integer is a pair <<hi, lo>> of 16-bit halves,  *)
(* because the hash wraps at 2^32.                                         *)
(***************************************************************************)
EXTENDS Integers, Sequences, FiniteSets, TLC

(***************************************************************************)
(* Bounds of the model.                                                    *)
(***************************************************************************)
\* append calls issued on one chain (stored or thrown)
MaxCalls == 3
\* milliseconds the clock may advance
MaxClock == 1
\* append calls issued and not yet run
MaxPending == 2
\* length of the factor lists built from PairFactors
MaxFactors == 2
\* Red axes of a risk radar
MaxRed == 3
\* Amber axes of a risk radar
MaxAmber == 4
\* largest variance of a Monte Carlo signal, in quarters
MaxVariance == 5
\* totalCitations of a citation record
MaxCitations == 2
\* length of a control-result list
MaxControls == 2
\* evaluations a Lumen instance returns from
MaxEvaluations == 2
\* rules of a pack a context can fail, beside the fixed choices
MaxFailing == 1
\* the calls of the hashing functions one caller makes
MaxHashed == 2
\* the greatest LUMEN score (PolicyPack.ts line 362: 0-100)
MaxScore == 100
\* the responses the hosted API gives to one call of request
MaxResponses == 2

(***************************************************************************)
(* Strings.                                                                *)
(***************************************************************************)
\* s.charCodeAt of a one-character string: the printable ASCII characters (the
\* strings of the model hold no others)
CharCode ==
  LET low == " !\"#$%&'()*+,-./0123456789:;<=>?@ABCDEFGHIJKLMNOPQRSTUVWXYZ[\\]^_"
      high == "abcdefghijklmnopqrstuvwxyz{|}~"
  IN [c \in {SubSeq(low, i, i) : i \in 1..Len(low)}
               \cup {SubSeq(high, i, i) : i \in 1..Len(high)} |->
        IF \E i \in 1..Len(low) : SubSeq(low, i, i) = c
        THEN 31 + (CHOOSE i \in 1..Len(low) : SubSeq(low, i, i) = c)
        ELSE 96 + (CHOOSE i \in 1..Len(high) : SubSeq(high, i, i) = c)]

\* digit d of a numeral in a base of at most 36, in lower or in upper case
Digit(d, upper) ==
  IF upper THEN SubSeq("0123456789ABCDEFGHIJKLMNOPQRSTUVWXYZ", d + 1, d + 1)
  ELSE SubSeq("0123456789abcdefghijklmnopqrstuvwxyz", d + 1, d + 1)

KERNEL_VERSION == "1.0.0"
MCDA_VERSION == "LUMEN-v3.0"

\* undefined where a string is optional (decisionId, evaluationId): written as the
\* empty string, which no id of the model is
Undefined == ""

(***************************************************************************)
(* JSON values: Record<string, unknown> as the code builds and serialises  *)
(* it.  An object keeps its keys in insertion order.  "cyclic" stands for  *)
(* a value JSON.stringify throws on (a circular reference, a BigInt).      *)
(***************************************************************************)
JStr(s) == [t |-> "str", s |-> s, n |-> 0, kv |-> <<>>]
JNum(n) == [t |-> "num", s |-> "", n |-> n, kv |-> <<>>]
JObj(kv) == [t |-> "obj", s |-> "", n |-> 0, kv |-> kv]
JArr(items) == [t |-> "arr", s |-> "", n |-> 0, kv |-> [i \in 1..Len(items) |-> [k |-> "", v |-> items[i]]]]
JBool(b) == [t |-> "bool", s |-> "", n |-> (IF b THEN 1 ELSE 0), kv |-> <<>>]
JNull == [t |-> "null", s |-> "", n |-> 0, kv |-> <<>>]
JUndefined == [t |-> "undefined", s |-> "", n |-> 0, kv |-> <<>>]
JCyclic == [t |-> "cyclic", s |-> "", n |-> 0, kv |-> <<>>]
Prop(k, v) == [k |-> k, v |-> v]

\* the decimal digits of a natural number, as Number.prototype.toString prints them
RECURSIVE NumStr(_)
NumStr(n) == IF n < 10 THEN Digit(n, FALSE) ELSE NumStr(n \div 10) \o Digit(n % 10, FALSE)

\* a string literal of JSON: quoted, with the quote and the backslash escaped
RECURSIVE Escape(_)
Escape(s) ==
  IF s = "" THEN ""
  ELSE (IF Head(s) \in {"\"", "\\"} THEN "\\" \o Head(s) ELSE Head(s)) \o Escape(Tail(s))

Quote(s) == "\"" \o Escape(s) \o "\""

\* JSON.stringify(value): [ok |-> FALSE] when it throws, else the text in out.
\* A property whose value is undefined is left out of its object.

RECURSIVE Stringify(_)
RECURSIVE StringifyProps(_, _)
RECURSIVE StringifyItems(_, _)
\* the elements of an array; an undefined element is written null
StringifyItems(kv, first) ==
  IF kv = <<>> THEN [ok |-> TRUE, out |-> ""]
  ELSE LET v == IF Head(kv).v.t = "undefined" THEN [ok |-> TRUE, out |-> "null"]
                ELSE Stringify(Head(kv).v)
           rest == StringifyItems(Tail(kv), FALSE)
       IN IF ~v.ok \/ ~rest.ok THEN [ok |-> FALSE, out |-> ""]
          ELSE [ok |-> TRUE,
                out |-> (IF first THEN "" ELSE ",") \o v.out \o rest.out]

StringifyProps(kv, first) ==
  IF kv = <<>> THEN [ok |-> TRUE, out |-> ""]
  ELSE IF Head(kv).v.t = "undefined" THEN StringifyProps(Tail(kv), first)
  ELSE LET v == Stringify(Head(kv).v)
           rest == StringifyProps(Tail(kv), FALSE)
       IN IF ~v.ok \/ ~rest.ok THEN [ok |-> FALSE, out |-> ""]
          ELSE [ok |-> TRUE,
                out |-> (IF first THEN "" ELSE ",") \o Quote(Head(kv).k)
                        \o ":" \o v.out \o rest.out]

Stringify(v) ==
  CASE v.t = "str" -> [ok |-> TRUE, out |-> Quote(v.s)]
    [] v.t = "num" -> [ok |-> TRUE, out |-> NumStr(v.n)]
    [] v.t = "obj" -> LET p == StringifyProps(v.kv, TRUE)
                      IN IF p.ok THEN [ok |-> TRUE, out |-> "{" \o p.out \o "}"]
                         ELSE p
    [] v.t = "arr" -> LET p == StringifyItems(v.kv, TRUE)
                      IN IF p.ok THEN [ok |-> TRUE, out |-> "[" \o p.out \o "]"]
                         ELSE p
    [] v.t = "bool" -> [ok |-> TRUE, out |-> IF v.n = 1 THEN "true" ELSE "false"]
    [] v.t = "null" -> [ok |-> TRUE, out |-> "null"]
    [] v.t = "dec" -> [ok |-> TRUE,
                       out |-> IF v.n % 10 = 0 THEN NumStr(v.n \div 10)
                               ELSE NumStr(v.n \div 10) \o "." \o Digit(v.n % 10, FALSE)]
    [] OTHER -> [ok |-> FALSE, out |-> ""]

(***************************************************************************)
(* The 32-bit rolling hash of hashPayload, hashObject, hashContent and the *)
(* sha256 fallback.                                                        *)
(***************************************************************************)
\* hash = ((hash << 5) - hash) + char; hash = hash & hash
HashStep(h, c) ==
  LET lo == (h[2] * 31) + c
  IN <<((h[1] * 31) + (lo \div 65536)) % 65536, lo % 65536>>

\* for (let i = 0; i < str.length; i++): the loop over the code units of s[i..j],
\* entered with hash h.  The range is halved so that the evaluation stays shallow;
\* the units are still taken left to right.
RECURSIVE HashRange(_, _, _, _)
HashRange(h, s, i, j) ==
  IF i > j THEN h
  ELSE IF i = j THEN HashStep(h, CharCode[SubSeq(s, i, i)])
  ELSE LET m == (i + j) \div 2
           left == HashRange(h, s, i, m)
       IN IF left[1] < 0 THEN left ELSE HashRange(left, s, m + 1, j)

RollingHash(s) == HashRange(<<0, 0>>, s, 1, Len(s))

\* Math.abs of a signed 32-bit integer (the top bit of hi is the sign)
MathAbs(h) ==
  IF h[1] < 32768 THEN h
  ELSE IF h[2] = 0 THEN <<65536 - h[1], 0>>
  ELSE <<65535 - h[1], 65536 - h[2]>>

\* the four hexadecimal digits of a 16-bit half
Hex4(x) ==
  Digit(x \div 4096, FALSE) \o Digit((x \div 256) % 16, FALSE)
    \o Digit((x \div 16) % 16, FALSE) \o Digit(x % 16, FALSE)

\* n.toString(16).padStart(16, '0') for 0 <= n <= 2^31
Hex16(h) == "00000000" \o Hex4(h[1]) \o Hex4(h[2])

\* new Date().toISOString() at clock value ms (ms < 1000): the clock starts at
\* 2026-01-01T00:00:00.000Z
ToISOString(ms) ==
  "2026-01-01T00:00:00." \o Digit(ms \div 100, FALSE) \o Digit((ms \div 10) % 10, FALSE)
    \o Digit(ms % 10, FALSE) \o "Z"

hashPayload(payload, timestamp, sequence) ==
  LET str == Stringify(JObj(<<Prop("payload", payload),
                              Prop("timestamp", JStr(timestamp)),
                              Prop("sequence", JNum(sequence))>>))
  IN IF ~str.ok THEN [ok |-> FALSE, out |-> ""]
     ELSE [ok |-> TRUE, out |-> "audit:" \o Hex16(MathAbs(RollingHash(str.out)))]

(***************************************************************************)
(* JavaScript numbers.  The kernel multiplies and adds IEEE-754 doubles    *)
(* and rounds the result with Math.round, so a product that is a tie in    *)
(* exact arithmetic (30 * 0.6 * 0.75 = 13.5) rounds as the double does     *)
(* (13.499999999999998 -> 13).  A double is [nan, neg, m, e]: the value    *)
(* m * 2^e with m a 53-bit natural (or zero), negated when neg.  Naturals  *)
(* of more than 31 bits are little-endian sequences of 14-bit limbs.       *)
(* Subnormals, infinities and -0 do not arise from the kernel's inputs.    *)
(***************************************************************************)
Limb == 2^14

\* 2^k for 0 <= k <= 14
Pow2Table == [k \in 0..14 |-> 2^k]
Pow2(k) == Pow2Table[k]

MaxInt(a, b) == IF a >= b THEN a ELSE b
MinInt(a, b) == IF a <= b THEN a ELSE b

BigLimb(x, i) == IF i >= 1 /\ i <= Len(x) THEN x[i] ELSE 0

RECURSIVE BigTrim(_)
BigTrim(x) ==
  IF x # <<>> /\ x[Len(x)] = 0 THEN BigTrim(SubSeq(x, 1, Len(x) - 1)) ELSE x

\* column sums to limbs, carrying (or borrowing) upwards
RECURSIVE BigCarry(_, _)
BigCarry(cols, carry) ==
  IF cols = <<>>
  THEN (IF carry <= 0 THEN <<>> ELSE <<carry % Limb>> \o BigCarry(<<>>, carry \div Limb))
  ELSE LET t == Head(cols) + carry
       IN <<t % Limb>> \o BigCarry(Tail(cols), t \div Limb)

BigFromInt(n) == BigTrim(<<n % Limb, (n \div Limb) % Limb, n \div (Limb * Limb)>>)

\* a natural below 2^28 back as an integer
BigToInt(x) == BigLimb(x, 1) + (BigLimb(x, 2) * Limb)

BigAdd(x, y) ==
  BigTrim(BigCarry([i \in 1..MaxInt(Len(x), Len(y)) |-> BigLimb(x, i) + BigLimb(y, i)], 0))

\* x - y for x >= y
BigSub(x, y) ==
  BigTrim(BigCarry([i \in 1..Len(x) |-> BigLimb(x, i) - BigLimb(y, i)], 0))

RECURSIVE BigColumn(_, _, _, _)
BigColumn(x, y, k, i) ==
  IF i > MinInt(Len(x), k) THEN 0
  ELSE (x[i] * y[(k + 1) - i]) + BigColumn(x, y, k, i + 1)

\* x * y for x, y of at most four limbs
BigMul(x, y) ==
  IF x = <<>> \/ y = <<>> THEN <<>>
  ELSE BigTrim(BigCarry([k \in 1..(Len(x) + Len(y)) - 1 |->
                           BigColumn(x, y, k, MaxInt(1, (k + 1) - Len(y)))], 0))

\* quotient and remainder of x by a small d, from the top limb down
RECURSIVE BigDivRem(_, _)
BigDivRem(x, d) ==
  IF x = <<>> THEN [q |-> <<>>, r |-> 0]
  ELSE LET hi == BigDivRem(Tail(x), d)
           t == (hi.r * Limb) + Head(x)
       IN [q |-> <<t \div d>> \o hi.q, r |-> t % d]

BigShiftLeft(x, k) ==
  LET q == k \div 14
      p == Pow2(k % 14)
  IN BigTrim([i \in 1..(Len(x) + q) + 1 |->
                ((BigLimb(x, i - q) * p) % Limb) + ((BigLimb(x, (i - q) - 1) * p) \div Limb)])

BigShiftRight(x, k) ==
  LET q == k \div 14
      p == Pow2(k % 14)
      up == Pow2(14 - (k % 14))
  IN IF q >= Len(x) THEN <<>>
     ELSE BigTrim([i \in 1..Len(x) - q |->
                     (BigLimb(x, i + q) \div p) + ((BigLimb(x, (i + q) + 1) % p) * up)])

\* bit k of x, bit 0 the lowest
BigBit(x, k) == (BigLimb(x, (k \div 14) + 1) \div Pow2(k % 14)) % 2

\* the k lowest bits of x are all zero
BigLowZero(x, k) ==
  /\ \A i \in 1..(k \div 14) : BigLimb(x, i) = 0
  /\ BigLimb(x, (k \div 14) + 1) % Pow2(k % 14) = 0

BigBitLen(x) ==
  IF x = <<>> THEN 0
  ELSE (14 * (Len(x) - 1)) + (CHOOSE b \in 1..14 : Pow2(b - 1) <= x[Len(x)] /\ x[Len(x)] < Pow2(b))

\* -1, 0, 1 as x < y, x = y, x > y
BigCmp(x, y) ==
  LET d == {i \in 1..MaxInt(Len(x), Len(y)) : BigLimb(x, i) # BigLimb(y, i)}
      top == CHOOSE i \in d : \A j \in d : j <= i
  IN IF d = {} THEN 0
     ELSE IF BigLimb(x, top) < BigLimb(y, top) THEN -1 ELSE 1

DblZero == [nan |-> FALSE, neg |-> FALSE, m |-> <<>>, e |-> 0]
NaN == [nan |-> TRUE, neg |-> FALSE, m |-> <<>>, e |-> 0]

\* a rounded-up mantissa q of 53 or 54 bits, times 2^e
DblCarry(neg, e, q) ==
  IF BigBitLen(q) = 54
  THEN [nan |-> FALSE, neg |-> neg, m |-> BigShiftRight(q, 1), e |-> e + 1]
  ELSE [nan |-> FALSE, neg |-> neg, m |-> q, e |-> e]

\* x * 2^e for x of more than 53 bits, k of them dropped and q the bits kept: up
\* when the dropped bits are more than half, or half with q odd
DblRoundUp(neg, x, e, k, q) ==
  DblCarry(neg, e + k,
           IF BigBit(x, k - 1) = 1 /\ (~BigLowZero(x, k - 1) \/ BigBit(q, 0) = 1)
           THEN BigAdd(q, <<1>>) ELSE q)

\* x * 2^e for x of len bits
DblRoundBits(neg, x, e, len) ==
  IF len <= 53
  THEN [nan |-> FALSE, neg |-> neg, m |-> BigShiftLeft(x, 53 - len), e |-> e - (53 - len)]
  ELSE DblRoundUp(neg, x, e, len - 53, BigShiftRight(x, len - 53))

\* the double nearest to x * 2^e (negated when neg), ties to the even mantissa
DblRound(neg, x, e) ==
  IF x = <<>> THEN DblZero ELSE DblRoundBits(neg, x, e, BigBitLen(x))

\* the double nearest to (qr.q + qr.r / d) * 2^-70: a remainder is a sticky bit
DblDivRound(qr) ==
  DblRound(FALSE, BigAdd(BigShiftLeft(BigTrim(qr.q), 1), IF qr.r = 0 THEN <<>> ELSE <<1>>), -71)

\* the double n / d of two integers n >= 0, d > 0 (d < 2^16): an integer (d = 1),
\* a decimal literal (0.42 is 42 / 100) or a quotient of two integer-valued doubles
DblDiv(n, d) ==
  IF n = 0 THEN DblZero ELSE DblDivRound(BigDivRem(BigShiftLeft(BigFromInt(n), 70), d))

\* the double of an integer n >= 0
DblInt(n) == DblDiv(n, 1)

DblNeg(a) == IF a.nan \/ a.m = <<>> THEN a ELSE [a EXCEPT !.neg = ~a.neg]

\* a * b
DblMul(a, b) ==
  IF a.nan \/ b.nan THEN NaN
  ELSE DblRound(a.neg # b.neg, BigMul(a.m, b.m), a.e + b.e)

\* a + b for a = (+-)x * 2^e and b = (+-)y * 2^e, c the comparison of x with y
DblAddAligned(a, b, e, x, y, c) ==
  IF a.neg # b.neg /\ c = 0 THEN DblZero
  ELSE DblRound(IF a.neg = b.neg \/ c > 0 THEN a.neg ELSE b.neg,
                IF a.neg = b.neg THEN BigAdd(x, y)
                ELSE IF c > 0 THEN BigSub(x, y) ELSE BigSub(y, x),
                e)

\* a + b for a, b that are not zero, at the exponent e of the smaller one
DblAddAt(a, b, e, x, y) == DblAddAligned(a, b, e, x, y, BigCmp(x, y))

\* a + b
DblAdd(a, b) ==
  IF a.nan \/ b.nan THEN NaN
  ELSE IF a.m = <<>> THEN b
  ELSE IF b.m = <<>> THEN a
  ELSE DblAddAt(a, b, MinInt(a.e, b.e),
                BigShiftLeft(a.m, a.e - MinInt(a.e, b.e)),
                BigShiftLeft(b.m, b.e - MinInt(a.e, b.e)))

\* a - b
DblSub(a, b) == DblAdd(a, DblNeg(b))

\* d < 0
DblNegative(d) == ~d.nan /\ d.m # <<>> /\ d.neg

\* a < b (false when either is NaN)
DblLess(a, b) == DblNegative(DblSub(a, b))

\* Math.min(a, b), Math.max(a, b): NaN when either is NaN
DblMin(a, b) == IF a.nan \/ b.nan THEN NaN ELSE IF DblLess(b, a) THEN b ELSE a
DblMax(a, b) == IF a.nan \/ b.nan THEN NaN ELSE IF DblLess(a, b) THEN b ELSE a

\* an integer-valued number, or NaN
Num(v) == [nan |-> FALSE, v |-> v]
NumNaN == [nan |-> TRUE, v |-> 0]

\* Math.round(a) for |a| < 2^27: the nearest integer, a tie going up
MathRound(a) ==
  LET k == 0 - a.e
      half == BigShiftLeft(<<1>>, k - 1)
      up == BigToInt(BigShiftRight(BigAdd(a.m, half), k))
      down == BigToInt(BigShiftRight(BigAdd(a.m, BigSub(half, <<1>>)), k))
  IN IF a.nan THEN NumNaN
     ELSE IF a.m = <<>> THEN Num(0)
     ELSE IF a.neg THEN Num(0 - down)
     ELSE Num(up)

\* Math.min, Math.max of an integer and a rounded number
NumMin(n, x) == IF x.nan THEN x ELSE Num(MinInt(n, x.v))
NumMax(n, x) == IF x.nan THEN x ELSE Num(MaxInt(n, x.v))

(***************************************************************************)
(* The scoring kernel (lumen-score): tables and modifiers.  A decimal      *)
(* literal of the source with two decimals is kept in hundredths and read  *)
(* as the double the literal denotes.                                      *)
(***************************************************************************)
\* the double a two-decimal literal denotes: 0.42 is Dec(42)
Dec(hundredths) == DblDiv(hundredths, 100)

\* a decimal number with one decimal, as a JSON value (avgRetrievalScore: 0.5)
JDec(tenths) == [t |-> "dec", s |-> "", n |-> tenths, kv |-> <<>>]

\* obj.key of an object value; undefined when the key is absent
Get(obj, key) ==
  LET hit == {i \in 1..Len(obj.kv) : obj.kv[i].k = key}
  IN IF hit = {} THEN JUndefined ELSE obj.kv[CHOOSE i \in hit : TRUE].v

\* a value used as a condition: undefined, null, false, 0 and "" are falsy
Truthy(v) ==
  CASE v.t \in {"undefined", "null"} -> FALSE
    [] v.t \in {"bool", "num", "dec"} -> v.n # 0
    [] v.t = "str" -> v.s # ""
    [] OTHER -> TRUE

CONFIDENCE_SCORES ==
  <<[k |-> "Strong", v |-> 85], [k |-> "Moderate", v |-> 60],
    [k |-> "Limited", v |-> 35], [k |-> "Unverifiable", v |-> 15]>>

\* in hundredths
FACTOR_WEIGHTS ==
  <<[k |-> "Technical Maturity", v |-> 20], [k |-> "Regulatory Alignment", v |-> 25],
    [k |-> "Labour Impact", v |-> 20], [k |-> "Workforce Change Impact", v |-> 20],
    [k |-> "Vendor Ecosystem", v |-> 15], [k |-> "Funding Pathway", v |-> 20]>>

\* in hundredths
DEFAULT_WEIGHT == 20

\* in hundredths
KERNEL_WEIGHTS ==
  [citationIntegrity |-> 30, controlAlignment |-> 25,
   evidenceQuality |-> 25, executionReadiness |-> 20]

TIER_THRESHOLDS == [EXCELLENT |-> 90, STRONG |-> 75, MODERATE |-> 60, WEAK |-> 40, POOR |-> 0]

\* names every object literal inherits from Object.prototype; what they name is a
\* function, not a number
ObjectPrototypeKeys == {"constructor", "toString"}

\* table[key] for a table written as an object literal: "number" for an own
\* entry, "object" for what Object.prototype supplies (truthy, NaN in arithmetic),
\* "undefined" otherwise
Lookup(table, key) ==
  LET hit == {i \in 1..Len(table) : table[i].k = key}
  IN IF hit # {} THEN [kind |-> "number", v |-> table[CHOOSE i \in hit : TRUE].v]
     ELSE IF key \in ObjectPrototypeKeys THEN [kind |-> "object", v |-> 0]
     ELSE [kind |-> "undefined", v |-> 0]

\* no Monte Carlo signal was passed
NoSignal ==
  [given |-> FALSE, variance |-> <<0, 1>>, runs |-> 0, method |-> "STUB", isStable |-> FALSE]

\* a MonteCarloSignal; variance is the decimal v[1] / v[2]
Signal(variance, runs, method, isStable) ==
  [given |-> TRUE, variance |-> variance, runs |-> runs, method |-> method,
   isStable |-> isStable]

\* sha256(message): the digest of crypto.subtle where the runtime has it (taken as
\* collision-free: the digest stands for its message), else the 32-bit rolling hash
sha256(message, crypto) ==
  IF crypto THEN [alg |-> "SHA-256", text |-> message]
  ELSE [alg |-> "rolling", text |-> Hex16(MathAbs(RollingHash(message)))]

calculateVarianceDegradation(signal) ==
  IF signal.runs = 0 THEN Dec(75)
  ELSE IF signal.isStable THEN DblInt(1)
  ELSE LET normalizedVariance ==
             DblMin(DblInt(1), DblDiv(signal.variance[1], signal.variance[2]))
       IN DblMax(Dec(25), DblSub(DblInt(1), DblMul(normalizedVariance, Dec(75))))

isVarianceUnknown(signal) == signal.runs = 0 \/ signal.method = "STUB"

\* the number of axes of the radar that carry the level
RadarCount(riskRadar, level) ==
  Cardinality({i \in 1..Len(riskRadar.kv) : riskRadar.kv[i].v = JStr(level)})

calculateRiskModifier(riskRadar, fatalFlawDetected) ==
  IF fatalFlawDetected THEN Dec(42)
  ELSE IF ~Truthy(riskRadar) THEN Dec(100)
  ELSE LET redCount == RadarCount(riskRadar, "Red")
           amberCount == RadarCount(riskRadar, "Amber")
       IN IF redCount >= 3 THEN Dec(50)
          ELSE IF redCount >= 2 THEN Dec(60)
          ELSE IF redCount = 1 THEN Dec(75)
          ELSE IF amberCount >= 4 THEN Dec(80)
          ELSE IF amberCount >= 3 THEN Dec(85)
          ELSE IF amberCount >= 2 THEN Dec(90)
          ELSE IF amberCount >= 1 THEN Dec(95)
          ELSE Dec(100)

RECURSIVE ToLowerCase(_)
ToLowerCase(s) ==
  IF s = "" THEN ""
  ELSE (IF CharCode[Head(s)] >= 65 /\ CharCode[Head(s)] <= 90
        THEN Digit(CharCode[Head(s)] - 55, FALSE) ELSE Head(s)) \o ToLowerCase(Tail(s))

Includes(s, sub) ==
  \E i \in 0..(Len(s) - Len(sub)) : SubSeq(s, i + 1, i + Len(sub)) = sub

\* a hard gate whose Moderate and Limited modifiers changed places
calculatePhipaModifier_swapped(factors, phiInvolved) ==
  LET reg == {i \in 1..Len(factors) :
                \/ Get(factors[i], "factorName").s = "Regulatory Alignment"
                \/ Includes(ToLowerCase(Get(factors[i], "factorName").s), "regulatory")}
      regFactor == factors[CHOOSE i \in reg : \A j \in reg : i <= j]
      confidence == Get(regFactor, "confidence").s
  IN IF ~phiInvolved THEN [modifier |-> Dec(100), auditNote |-> ""]
     ELSE IF reg = {}
     THEN [modifier |-> Dec(55),
           auditNote |-> "PHIPA HARD GATE: PHI involved but no regulatory assessment"]
     ELSE CASE confidence = "Strong" -> [modifier |-> Dec(100), auditNote |-> ""]
            [] confidence = "Moderate" ->
                 [modifier |-> Dec(70),
                  auditNote |-> "PHIPA: Moderate regulatory confidence with PHI"]
            [] confidence = "Limited" ->
                 [modifier |-> Dec(90),
                  auditNote |-> "PHIPA HARD GATE: Limited regulatory confidence with PHI"]
            [] confidence = "Unverifiable" ->
                 [modifier |-> Dec(50),
                  auditNote |-> "PHIPA HARD GATE: Unverifiable regulatory confidence with PHI"]
            [] OTHER ->
                 [modifier |-> Dec(80), auditNote |-> "PHIPA: Unknown regulatory confidence"]

\* the auditNote is "" where the code returns null: both are falsy at line 429
calculatePhipaModifier(factors, phiInvolved) ==
  LET reg == {i \in 1..Len(factors) :
                \/ Get(factors[i], "factorName").s = "Regulatory Alignment"
                \/ Includes(ToLowerCase(Get(factors[i], "factorName").s), "regulatory")}
      regFactor == factors[CHOOSE i \in reg : \A j \in reg : i <= j]
      confidence == Get(regFactor, "confidence").s
  IN IF ~phiInvolved THEN [modifier |-> Dec(100), auditNote |-> ""]
     ELSE IF reg = {}
     THEN [modifier |-> Dec(55),
           auditNote |-> "PHIPA HARD GATE: PHI involved but no regulatory assessment"]
     ELSE CASE confidence = "Strong" -> [modifier |-> Dec(100), auditNote |-> ""]
            [] confidence = "Moderate" ->
                 [modifier |-> Dec(90),
                  auditNote |-> "PHIPA: Moderate regulatory confidence with PHI"]
            [] confidence = "Limited" ->
                 [modifier |-> Dec(70),
                  auditNote |-> "PHIPA HARD GATE: Limited regulatory confidence with PHI"]
            [] confidence = "Unverifiable" ->
                 [modifier |-> Dec(50),
                  auditNote |-> "PHIPA HARD GATE: Unverifiable regulatory confidence with PHI"]
            [] OTHER ->
                 [modifier |-> Dec(80), auditNote |-> "PHIPA: Unknown regulatory confidence"]

(***************************************************************************)
(* calculateStrategicConfidence.  options is [factors, riskRadar,          *)
(* fatalFlawDetected, phiInvolved, monteCarloSignal] with the two flags    *)
(* already defaulted to false; clock is what new Date() reads and crypto   *)
(* whether the runtime has crypto.subtle.  The description text is left    *)
(* out of the result, and the dash of the no-factors note is written "-".  *)
(***************************************************************************)
\* a provenance whose inputsHash also covers the time of the calculation
Provenance_stamped(algorithmVersion, clock, inputsHash, monteCarloSignal, auditNotes) ==
  [algorithmVersion |-> algorithmVersion,
   calculatedAt |-> ToISOString(clock),
   inputsHash |-> [inputsHash EXCEPT !.text = inputsHash.text \o ToISOString(clock)],
   reproducible |-> TRUE,
   monteCarloSignal |-> monteCarloSignal,
   auditNotes |-> auditNotes]

\* lines 394-401, 454-461, 681-688: the ScoreProvenance of a result
Provenance(algorithmVersion, clock, inputsHash, monteCarloSignal, auditNotes) ==
  [algorithmVersion |-> algorithmVersion,
   calculatedAt |-> ToISOString(clock),
   inputsHash |-> inputsHash,
   reproducible |-> TRUE,
   monteCarloSignal |-> monteCarloSignal,
   auditNotes |-> auditNotes]

\* lines 411-417: the entry of a factor with its score and its weight
FactorEntry(factor, numericScore, weight) ==
  [factorName |-> Get(factor, "factorName").s,
   confidence |-> Get(factor, "confidence").s,
   numericScore |-> numericScore,
   weight |-> weight,
   contribution |-> DblMul(numericScore, weight)]

\* table[key] || fallback as a number; scale is 1 for a table of integers and 100
\* for a table kept in hundredths
LookupOr(found, fallback, scale) ==
  CASE found.kind = "number" -> DblDiv(found.v, scale)
    [] found.kind = "object" -> NaN
    [] OTHER -> DblDiv(fallback, scale)

\* lines 407-409: one entry of factorBreakdown
FactorContribution(factor) ==
  FactorEntry(factor,
              LookupOr(Lookup(CONFIDENCE_SCORES, Get(factor, "confidence").s), 50, 1),
              LookupOr(Lookup(FACTOR_WEIGHTS, Get(factor, "factorName").s), DEFAULT_WEIGHT, 100))

\* line 420: factorBreakdown.reduce((sum, f) => sum + f.contribution, 0) from entry i
RECURSIVE SumContributions(_, _, _)
SumContributions(sum, factorBreakdown, i) ==
  IF i > Len(factorBreakdown) THEN sum
  ELSE SumContributions(DblAdd(sum, factorBreakdown[i].contribution), factorBreakdown, i + 1)

\* lines 438, 626: the note of a Monte Carlo penalty
MonteCarloNote(mcDegradation) ==
  "Monte Carlo degradation: "
    \o ToString(MathRound(DblMul(DblSub(DblInt(1), mcDegradation), DblInt(100))).v)
    \o "% penalty"

\* line 381: the text that is hashed
StrategicInputsText(options) ==
  Stringify(JObj(<<Prop("factors", JArr(options.factors)),
                   Prop("riskRadar", options.riskRadar),
                   Prop("fatalFlawDetected", JBool(options.fatalFlawDetected)),
                   Prop("phiInvolved", JBool(options.phiInvolved))>>)).out

\* lines 424-439: the audit notes
StrategicNotes(options, phipaResult, mcDegradation) ==
  (IF options.fatalFlawDetected THEN <<"FATAL FLAW: Score capped at 42">> ELSE <<>>)
    \o (IF phipaResult.auditNote # "" THEN <<phipaResult.auditNote>> ELSE <<>>)
    \o (IF options.monteCarloSignal.given /\ DblLess(mcDegradation, DblInt(1))
        THEN <<MonteCarloNote(mcDegradation)>> ELSE <<>>)

\* lines 443-462: the final score and the result
StrategicResult(options, clock, inputsHash, factorBreakdown, baseScore, auditNotes, combinedModifier) ==
  [scoreName |-> "STRATEGIC_CONFIDENCE",
   finalScore |-> NumMax(1, NumMin(100, MathRound(DblMul(baseScore, combinedModifier)))),
   baseScore |-> MathRound(baseScore),
   riskModifier |-> combinedModifier,
   factorBreakdown |-> factorBreakdown,
   calculatedAt |-> ToISOString(clock),
   algorithmVersion |-> MCDA_VERSION,
   provenance |->
     Provenance(MCDA_VERSION, clock, inputsHash, options.monteCarloSignal, auditNotes)]

\* lines 420-442: the base score, the risk modifier, the notes and the combined
\* modifier
StrategicModified(options, clock, inputsHash, factorBreakdown, phipaResult, mcDegradation) ==
  StrategicResult(options, clock, inputsHash, factorBreakdown,
                  SumContributions(DblZero, factorBreakdown, 1),
                  StrategicNotes(options, phipaResult, mcDegradation),
                  DblMul(DblMul(calculateRiskModifier(options.riskRadar,
                                                      options.fatalFlawDetected),
                                phipaResult.modifier),
                         mcDegradation))

calculateStrategicConfidence(options, clock, crypto) ==
  IF Len(options.factors) = 0
  THEN [scoreName |-> "STRATEGIC_CONFIDENCE",
        finalScore |-> Num(50),
        baseScore |-> Num(50),
        riskModifier |-> Dec(100),
        factorBreakdown |-> <<>>,
        calculatedAt |-> ToISOString(clock),
        algorithmVersion |-> MCDA_VERSION,
        provenance |->
          Provenance(MCDA_VERSION, clock, sha256(StrategicInputsText(options), crypto),
                     options.monteCarloSignal,
                     <<"No factors provided - defaulting to neutral score">>)]
  ELSE StrategicModified(options, clock, sha256(StrategicInputsText(options), crypto),
                         [i \in 1..Len(options.factors) |->
                            FactorContribution(options.factors[i])],
                         calculatePhipaModifier(options.factors, options.phiInvolved),
                         IF options.monteCarloSignal.given
                         THEN calculateVarianceDegradation(options.monteCarloSignal)
                         ELSE DblInt(1))

(***************************************************************************)
(* calculateDecisionTrust.  input is [citationIntegrity, controlResults,   *)
(* evidenceMetrics, workflowContext] of JSON values as the caller built    *)
(* them.  The notes and contribution percentages of the four factors are   *)
(* texts derived from the scores and are left out of the result.           *)
(***************************************************************************)
\* a rounded number as a double again
NumToDbl(x) == IF x.nan THEN NaN ELSE DblInt(x.v)

\* Math.max(0, Math.min(100, x)) of a rounded number
Clamp0To100(x) == NumMax(0, NumMin(100, x))

\* lines 473-477: verificationRate * 100 less the two penalties, rounded and clamped
CitationScore(totalCitations, verifiedCitations, fabricatedCitations, mismatchedCitations) ==
  Clamp0To100(MathRound(
    DblSub(DblSub(DblMul(DblDiv(verifiedCitations, totalCitations), DblInt(100)),
                  DblMul(DblDiv(fabricatedCitations, totalCitations), DblInt(50))),
           DblMul(DblDiv(mismatchedCitations, totalCitations), DblInt(20)))))

calculateCitationIntegrityFactor(metrics) ==
  IF Get(metrics, "totalCitations").n = 0 THEN Num(70)
  ELSE CitationScore(Get(metrics, "totalCitations").n, Get(metrics, "verifiedCitations").n,
                     Get(metrics, "fabricatedCitations").n,
                     Get(metrics, "mismatchedCitations").n)

severityWeights ==
  <<[k |-> "CRITICAL", v |-> 4], [k |-> "HIGH", v |-> 3],
    [k |-> "MEDIUM", v |-> 2], [k |-> "LOW", v |-> 1]>>

\* lines 488-492: the sum of the severity weights of the results from entry i on,
\* of all of them (totalWeight) or of those that passed (passedWeight)
RECURSIVE SeverityWeightSum(_, _, _)
SeverityWeightSum(results, i, passedOnly) ==
  IF i > Len(results) THEN 0
  ELSE (IF passedOnly => Truthy(Get(results[i], "passed"))
        THEN Lookup(severityWeights, Get(results[i], "severity").s).v ELSE 0)
       + SeverityWeightSum(results, i + 1, passedOnly)

\* lines 494-499: the share of the weight that passed, capped at 40 by a failed
\* CRITICAL control, rounded and clamped
ControlScore(hasCriticalFailure, score) ==
  Clamp0To100(MathRound(IF hasCriticalFailure THEN DblMin(score, DblInt(40)) ELSE score))

calculateControlAlignmentFactor(results) ==
  IF Len(results) = 0 THEN Num(50)
  ELSE IF SeverityWeightSum(results, 1, FALSE) = 0 THEN Num(50)
  ELSE ControlScore(\E i \in 1..Len(results) :
                      /\ Get(results[i], "severity").s = "CRITICAL"
                      /\ ~Truthy(Get(results[i], "passed")),
                    DblMul(DblDiv(SeverityWeightSum(results, 1, TRUE),
                                  SeverityWeightSum(results, 1, FALSE)),
                           DblInt(100)))

\* the double of a JSON number
JToDbl(v) == IF v.t = "dec" THEN DblDiv(v.n, 10) ELSE DblInt(v.n)

calculateEvidenceQualityFactor(metrics) ==
  IF Get(metrics, "sourceCount").n = 0 THEN Num(20)
  ELSE Clamp0To100(MathRound(
         DblAdd(DblAdd(DblMul(DblMin(DblDiv(Get(metrics, "sourceCount").n, 10), DblInt(1)),
                              DblInt(40)),
                       DblMul(JToDbl(Get(metrics, "avgRetrievalScore")), DblInt(40))),
                DblMul(DblMin(DblDiv(Get(metrics, "documentTypeCount").n, 5), DblInt(1)),
                       DblInt(20)))))

calculateExecutionReadinessFactor(context) ==
  IF ~Truthy(context) THEN Num(50)
  ELSE Clamp0To100(Num(40
         + (IF Truthy(Get(context, "hasDefinedBoundaries")) THEN 20 ELSE 0)
         + (IF Truthy(Get(context, "hasRollbackPlan")) THEN 20 ELSE 0)
         + (IF Truthy(Get(context, "hasMonitoringPlan")) THEN 20 ELSE 0)))

\* a comparison with NaN is false, so NaN is POOR
determineTier(score) ==
  IF ~score.nan /\ score.v >= TIER_THRESHOLDS.EXCELLENT THEN "EXCELLENT"
  ELSE IF ~score.nan /\ score.v >= TIER_THRESHOLDS.STRONG THEN "STRONG"
  ELSE IF ~score.nan /\ score.v >= TIER_THRESHOLDS.MODERATE THEN "MODERATE"
  ELSE IF ~score.nan /\ score.v >= TIER_THRESHOLDS.WEAK THEN "WEAK"
  ELSE "POOR"

\* a.localeCompare(b) < 0, for strings of digits and letters of one case, where
\* the collation order is the order of the code units
RECURSIVE StrLess(_, _)
StrLess(a, b) ==
  IF b = "" THEN FALSE
  ELSE IF a = "" THEN TRUE
  ELSE IF Head(a) # Head(b) THEN CharCode[Head(a)] < CharCode[Head(b)]
  ELSE StrLess(Tail(a), Tail(b))

\* lines 581-585: the comparator is negative
ControlBefore(a, b) ==
  \/ StrLess(Get(a, "controlId").s, Get(b, "controlId").s)
  \/ /\ Get(a, "controlId").s = Get(b, "controlId").s
     /\ StrLess(Get(a, "severity").s, Get(b, "severity").s)

\* [...controlResults].sort(comparator): Array.prototype.sort is stable, so
\* results the comparator calls equal keep the order they were given in
RECURSIVE SortControls(_)
SortControls(results) ==
  IF results = <<>> THEN <<>>
  ELSE LET last == results[Len(results)]
           front == SortControls(SubSeq(results, 1, Len(results) - 1))
           after == {i \in 1..Len(front) : ControlBefore(last, front[i])}
           at == IF after = {} THEN Len(front) + 1
                 ELSE CHOOSE i \in after : \A j \in after : i <= j
       IN SubSeq(front, 1, at - 1) \o <<last>> \o SubSeq(front, at, Len(front))

\* lines 587-601: the object that is hashed
Canonical(input) ==
  LET sortedControls == SortControls(input.controlResults)
      OrFalse(v) == IF v.t \in {"undefined", "null"} THEN JBool(FALSE) ELSE v
  IN JObj(<<Prop("citationIntegrity", input.citationIntegrity),
            Prop("controlResults",
                 JArr([i \in 1..Len(sortedControls) |->
                         JObj(<<Prop("controlId", Get(sortedControls[i], "controlId")),
                                Prop("passed", Get(sortedControls[i], "passed")),
                                Prop("severity", Get(sortedControls[i], "severity"))>>)])),
            Prop("evidenceMetrics", input.evidenceMetrics),
            Prop("workflowContext",
                 IF Truthy(input.workflowContext)
                 THEN JObj(<<Prop("hasDefinedBoundaries",
                                  OrFalse(Get(input.workflowContext, "hasDefinedBoundaries"))),
                             Prop("hasRollbackPlan",
                                  OrFalse(Get(input.workflowContext, "hasRollbackPlan"))),
                             Prop("hasMonitoringPlan",
                                  OrFalse(Get(input.workflowContext, "hasMonitoringPlan")))>>)
                 ELSE JNull),
            Prop("kernelVersion", JStr(KERNEL_VERSION))>>)

\* lines 630-635: the weighted sum of the four scores, degraded and rounded
TrustOverall(rawScores, mcDegradation) ==
  MathRound(DblMul(
    DblAdd(DblAdd(DblAdd(DblMul(NumToDbl(rawScores.citationIntegrity),
                                Dec(KERNEL_WEIGHTS.citationIntegrity)),
                         DblMul(NumToDbl(rawScores.controlAlignment),
                                Dec(KERNEL_WEIGHTS.controlAlignment))),
                  DblMul(NumToDbl(rawScores.evidenceQuality),
                         Dec(KERNEL_WEIGHTS.evidenceQuality))),
           DblMul(NumToDbl(rawScores.executionReadiness),
                  Dec(KERNEL_WEIGHTS.executionReadiness))),
    mcDegradation))

\* lines 671-689: the result
TrustResult(options, clock, inputsHash, rawScores, mcDegradation, overall) ==
  [scoreName |-> "DECISION_TRUST",
   overall |-> overall,
   tier |-> determineTier(overall),
   factors |-> [citationIntegrity |-> [score |-> rawScores.citationIntegrity],
                controlAlignment |-> [score |-> rawScores.controlAlignment],
                evidenceQuality |-> [score |-> rawScores.evidenceQuality],
                executionReadiness |-> [score |-> rawScores.executionReadiness]],
   inputsHash |-> inputsHash,
   kernelVersion |-> KERNEL_VERSION,
   calculatedAt |-> ToISOString(clock),
   reproducible |-> TRUE,
   provenance |->
     Provenance(KERNEL_VERSION, clock, inputsHash, options.monteCarloSignal,
                IF options.monteCarloSignal.given /\ DblLess(mcDegradation, DblInt(1))
                THEN <<MonteCarloNote(mcDegradation)>> ELSE <<>>)]

\* lines 621-689: the overall score and the result, from the four scores
TrustScored(options, clock, inputsHash, rawScores, mcDegradation) ==
  TrustResult(options, clock, inputsHash, rawScores, mcDegradation,
              TrustOverall(rawScores, mcDegradation))

calculateDecisionTrust(options, clock, crypto) ==
  TrustScored(options, clock,
              sha256(Stringify(Canonical(options.input)).out, crypto),
              [citationIntegrity |->
                 calculateCitationIntegrityFactor(options.input.citationIntegrity),
               controlAlignment |->
                 calculateControlAlignmentFactor(options.input.controlResults),
               evidenceQuality |->
                 calculateEvidenceQualityFactor(options.input.evidenceMetrics),
               executionReadiness |->
                 calculateExecutionReadinessFactor(options.input.workflowContext)],
              IF options.monteCarloSignal.given
              THEN calculateVarianceDegradation(options.monteCarloSignal)
              ELSE DblInt(1))

(***************************************************************************)
(* State.                                                                  *)
(***************************************************************************)
VARIABLES
  events,           \* AuditChain.events
  currentSequence,  \* AuditChain.currentSequence
  now,              \* the clock read by new Date(), in ms after 2026-01-01T00:00:00Z
  pending,          \* append calls issued by concurrent callers, not yet run
  lastResult,       \* what the last operation returned to its caller
  tampered,         \* indices of stored events a caller mutated in place
  hasCrypto,        \* whether the runtime has crypto.subtle (typeof crypto, line 216)
  scoreFirst,       \* the first call of the scoring kernel: function, options, result
  between,          \* a call of the kernel made after the first one
  scoreLast,        \* the call that repeated the options of the first one
  completed,        \* the evaluations a Lumen instance has returned from
  config,           \* Lumen.config: the enforcement mode, and whether an API key was given
  hashed            \* the calls a caller of the library's functions made, with their results

chainVars == <<events, currentSequence, now, pending, lastResult, tampered>>
scoreVars == <<hasCrypto, scoreFirst, between, scoreLast>>
lumenVars == <<completed, config>>
vars == <<events, currentSequence, now, pending, lastResult, tampered,
          hasCrypto, scoreFirst, between, scoreLast, completed, config, hashed>>

(***************************************************************************)
(* AuditChain (src/primitives/AuditEvent.ts).                              *)
(***************************************************************************)
\* systemActor(serviceName)
systemActor(serviceName) == [type |-> "SYSTEM", id |-> "LUMEN-SDK", serviceName |-> serviceName]

tenantId == "default"
sessionId == "session"

\* the payloads callers pass: two serialisable objects and one JSON.stringify throws on
Payloads == {JObj(<<Prop("k", JStr("aaad"))>>), JObj(<<Prop("k", JStr("tnyta"))>>), JCyclic}


\* the arguments of the append calls issued in the model
Calls ==
  { [eventType |-> "SESSION_STARTED", actor |-> systemActor("LumenSDK"),
     payload |-> JObj(<<Prop("k", JStr("aaad"))>>),
     decisionId |-> Undefined, evaluationId |-> Undefined],
    [eventType |-> "DECISION_CREATED", actor |-> systemActor("LumenSDK"),
     payload |-> JObj(<<Prop("k", JStr("tnyta"))>>),
     decisionId |-> "d1", evaluationId |-> Undefined],
    [eventType |-> "EVALUATION_COMPLETED", actor |-> systemActor("LumenSDK"),
     payload |-> JCyclic,
     decisionId |-> "d1", evaluationId |-> Undefined] }

\* a chain whose append forgets the link to the stored tail
previousHashOf_unlinked(evs) == "GENESIS"

\* lines 118-120: the hash the new event links to
previousHashOf(evs) ==
  IF Len(evs) > 0 THEN evs[Len(evs)].payloadHash ELSE "GENESIS"

\* line 117: const sequence = this.currentSequence++
nextSequence(seq) == seq + 1

\* AuditChain.append: the chain after the call, whether it threw, and the event.
\* The sequence counter is advanced (line 117) before hashPayload can throw
\* (line 122); the event is stored only when it does not.  The eventId (time
\* and Math.random) is read by no operation and is left out of the event.
append(evs, seq, clock, call) ==
  LET timestamp == ToISOString(clock)
      sequence == seq
      previousHash == previousHashOf(evs)
      payloadHash == hashPayload(call.payload, timestamp, sequence)
      event == [eventType |-> call.eventType,
                decisionId |-> call.decisionId,
                evaluationId |-> call.evaluationId,
                timestamp |-> timestamp,
                actor |-> call.actor,
                payload |-> call.payload,
                payloadHash |-> payloadHash.out,
                previousHash |-> previousHash,
                sequence |-> sequence,
                tenantId |-> tenantId,
                sessionId |-> sessionId]
  IN IF ~payloadHash.ok
     THEN [threw |-> TRUE, events |-> evs, currentSequence |-> nextSequence(seq),
           returned |-> <<>>]
     ELSE [threw |-> FALSE, events |-> Append(evs, event),
           currentSequence |-> nextSequence(seq), returned |-> <<event>>]

\* AuditChain.getEvents: a new array holding the stored event objects
getEvents(evs) == evs

\* AuditChain.getEventsForDecision
getEventsForDecision(evs, decisionId) ==
  SelectSeq(evs, LAMBDA e : e.decisionId = decisionId)

\* AuditChain.verifyIntegrity: brokenAt is the 0-based index, -1 when absent
verifyIntegrity(evs) ==
  LET broken == {i \in 2..Len(evs) : evs[i].previousHash # evs[i - 1].payloadHash}
  IN IF broken = {} THEN [valid |-> TRUE, brokenAt |-> -1]
     ELSE [valid |-> FALSE,
           brokenAt |-> (CHOOSE i \in broken : \A j \in broken : i <= j) - 1]

\* AuditChain.export: the value JSON.stringify(..., null, 2) renders; it throws
\* when a stored payload cannot be serialised
export(evs, clock) ==
  [threw |-> \E i \in 1..Len(evs) : ~Stringify(evs[i].payload).ok,
   tenantId |-> tenantId, sessionId |-> sessionId,
   exportedAt |-> ToISOString(clock), eventCount |-> Len(evs), events |-> evs]

(***************************************************************************)
(* What an operation returned.                                             *)
(***************************************************************************)
Result(op, threw, valid, brokenAt, out) ==
  [op |-> op, threw |-> threw, valid |-> valid, brokenAt |-> brokenAt, out |-> out]

NoResult == Result("none", FALSE, TRUE, -1, <<>>)

\* no call of the scoring kernel
NoCall == [fn |-> "none", options |-> <<>>, result |-> <<>>]

\* index.ts lines 298-309: the config of an instance, the default enforcement
\* mode and whether an API key was given
Configs == [enforcementMode : {"ADVISORY"}, apiKey : BOOLEAN]

\* index.ts lines 298-302: the defaults
DefaultConfig == [enforcementMode |-> "ADVISORY", apiKey |-> FALSE]

(***************************************************************************)
(* Actions on a free-standing AuditChain.                                  *)
(***************************************************************************)
Init ==
  /\ events = <<>>
  /\ currentSequence = 0
  /\ now = 0
  /\ pending = <<>>
  /\ lastResult = NoResult
  /\ tampered = {}
  /\ hasCrypto = TRUE
  /\ scoreFirst = NoCall
  /\ between = NoCall
  /\ scoreLast = NoCall
  /\ completed = <<>>
  /\ config = DefaultConfig
  /\ hashed = <<>>

\* the clock advances between two operations
Tick ==
  /\ now < MaxClock
  /\ now' = now + 1
  /\ UNCHANGED <<events, currentSequence, pending, lastResult, tampered>>
  /\ UNCHANGED <<scoreVars, lumenVars, hashed>>

\* a caller issues chain.append(...): the call waits for the event loop
IssueAppend ==
  /\ currentSequence + Len(pending) < MaxCalls
  /\ Len(pending) < MaxPending
  /\ \E call \in Calls : pending' = Append(pending, call)
  /\ UNCHANGED <<events, currentSequence, now, lastResult, tampered>>
  /\ UNCHANGED <<scoreVars, lumenVars, hashed>>

\* the event loop runs one issued append call, in any order, to completion:
\* append is synchronous, so no other call runs inside it
RunAppend ==
  \E k \in 1..Len(pending) :
    LET r == append(events, currentSequence, now, pending[k])
    IN /\ events' = r.events
       /\ currentSequence' = r.currentSequence
       /\ pending' = SubSeq(pending, 1, k - 1) \o SubSeq(pending, k + 1, Len(pending))
       /\ lastResult' = Result("append", r.threw, TRUE, -1, r.returned)
       /\ UNCHANGED <<now, tampered>>
       /\ UNCHANGED <<scoreVars, lumenVars, hashed>>

\* a getEvents that hands the stored array over and empties the chain
GetEvents_draining ==
  /\ lastResult' = Result("getEvents", FALSE, TRUE, -1, events)
  /\ events' = <<>>
  /\ UNCHANGED <<currentSequence, now, pending, tampered>>
  /\ UNCHANGED <<scoreVars, lumenVars, hashed>>

GetEvents ==
  /\ lastResult' = Result("getEvents", FALSE, TRUE, -1, getEvents(events))
  /\ UNCHANGED <<events, currentSequence, now, pending, tampered>>
  /\ UNCHANGED <<scoreVars, lumenVars, hashed>>

GetEventsForDecision ==
  /\ \E d \in {"d1", Undefined} :
       lastResult' = Result("getEventsForDecision", FALSE, TRUE, -1,
                            getEventsForDecision(events, d))
  /\ UNCHANGED <<events, currentSequence, now, pending, tampered>>
  /\ UNCHANGED <<scoreVars, lumenVars, hashed>>

VerifyIntegrity ==
  /\ LET v == verifyIntegrity(events)
     IN lastResult' = Result("verifyIntegrity", FALSE, v.valid, v.brokenAt, <<>>)
  /\ UNCHANGED <<events, currentSequence, now, pending, tampered>>
  /\ UNCHANGED <<scoreVars, lumenVars, hashed>>

Export ==
  /\ LET x == export(events, now)
     IN lastResult' = Result("export", x.threw, TRUE, -1, x.events)
  /\ UNCHANGED <<events, currentSequence, now, pending, tampered>>
  /\ UNCHANGED <<scoreVars, lumenVars, hashed>>

Next ==
  \/ Tick
  \/ IssueAppend
  \/ RunAppend
  \/ GetEvents
  \/ GetEventsForDecision
  \/ VerifyIntegrity
  \/ Export

Spec == Init /\ [][Next]_vars

(***************************************************************************)
(* A caller that holds a stored event (getEvents returns the stored event  *)
(* objects, append stores the caller's payload object) changes its payload *)
(* in place; no hash is recomputed.                                        *)
(***************************************************************************)
Tamper ==
  /\ \E i \in 1..Len(events) : \E p \in Payloads \ {events[i].payload} :
       /\ events' = [events EXCEPT ![i].payload = p]
       /\ tampered' = tampered \cup {i - 1}
  /\ lastResult' = NoResult
  /\ UNCHANGED <<currentSequence, now, pending>>
  /\ UNCHANGED <<scoreVars, lumenVars, hashed>>

NextTamper == Next \/ Tamper

SpecTamper == Init /\ [][NextTamper]_vars

(***************************************************************************)
(* The options the scoring kernel is called with.                          *)
(***************************************************************************)
\* all sequences over S of length at most n
SeqsUpTo(S, n) == UNION {[1..k -> S] : k \in 0..n}

Factor(factorName, confidence) ==
  JObj(<<Prop("factorName", JStr(factorName)), Prop("confidence", JStr(confidence))>>)

\* the six factors of FACTOR_WEIGHTS, in the order of the table, at one confidence
TableList(confidence) ==
  [i \in 1..Len(FACTOR_WEIGHTS) |-> Factor(FACTOR_WEIGHTS[i].k, confidence)]

\* the factors that longer lists are made of
PairFactors ==
  {Factor("Technical Maturity", "Moderate"), Factor("Regulatory Alignment", "Strong"),
   Factor("Regulatory Alignment", "Limited")}

\* the lists of PairFactors; one factor of each name (the six names of
\* FACTOR_WEIGHTS, a name that is not in the table, one that is not in the table
\* and contains "regulatory", and a name of Object.prototype); and the table lists
FactorLists ==
  SeqsUpTo(PairFactors, MaxFactors)
    \cup {<<Factor(n, c)>> :
            n \in {FACTOR_WEIGHTS[i].k : i \in 1..Len(FACTOR_WEIGHTS)}
                    \cup {"Data Quality", "regulatory review", "constructor"},
            c \in {"Strong", "Limited"}}
    \cup {TableList(c) : c \in {"Strong", "Moderate", "Limited", "Unverifiable"}}

\* the factor list that is combined with every radar and every signal
BaseList ==
  <<Factor("Regulatory Alignment", "Strong"), Factor("Regulatory Alignment", "Limited")>>

Axes == <<"legal", "labour", "safety", "ethics", "cyber", "finance", "reputation">>

\* a radar whose first red axes are Red and next amber axes Amber, and one Green
\* axis after them when there is room
Radar(red, amber) ==
  JObj([i \in 1..MinInt(Len(Axes), (red + amber) + 1) |->
          Prop(Axes[i], JStr(IF i <= red THEN "Red"
                             ELSE IF i <= red + amber THEN "Amber" ELSE "Green"))])

\* no signal, the unknown signals (runs = 0, or a STUB method), a stable one, and
\* unstable ones of variance 0, 1/4, ... MaxVariance/4 and 1/10
Signals ==
  {NoSignal,
   Signal(<<0, 1>>, 0, "STUB", FALSE),
   Signal(<<0, 1>>, 3, "STUB", TRUE),
   Signal(<<1, 4>>, 3, "MULTI_RUN", TRUE),
   Signal(<<1, 10>>, 5, "DROPOUT_SAMPLING", FALSE)}
    \cup {Signal(<<q, 4>>, 3, "MULTI_RUN", FALSE) : q \in 0..MaxVariance}

StrategicOptions(factors, riskRadar, fatalFlawDetected, phiInvolved, monteCarloSignal) ==
  [factors |-> factors, riskRadar |-> riskRadar, fatalFlawDetected |-> fatalFlawDetected,
   phiInvolved |-> phiInvolved, monteCarloSignal |-> monteCarloSignal]

\* every factor list with no radar, the base list with every radar, the lists of
\* PairFactors with PHI involved, the base list with every signal, with PHI
\* involved one regulatory factor at every confidence and two of the table
\* lists, and the Limited table list with a radar and no signal
StrategicInputs ==
  {StrategicOptions(fl, JUndefined, ff, FALSE, NoSignal) : fl \in FactorLists, ff \in BOOLEAN}
    \cup {StrategicOptions(BaseList, r, ff, FALSE, NoSignal) :
            r \in {JUndefined}
                    \cup {Radar(p[1], p[2]) :
                            p \in {q \in (0..MaxRed) \X (0..MaxAmber) :
                                     q[1] + q[2] <= Len(Axes)}},
            ff \in BOOLEAN}
    \cup {StrategicOptions(fl, JUndefined, ff, TRUE, NoSignal) :
            fl \in SeqsUpTo(PairFactors, MaxFactors), ff \in BOOLEAN}
    \cup {StrategicOptions(BaseList, JUndefined, ff, FALSE, mc) : ff \in BOOLEAN, mc \in Signals}
    \cup {StrategicOptions(fl, JUndefined, FALSE, TRUE, NoSignal) :
            fl \in {<<Factor(n, c)>> :
                      n \in {"Regulatory Alignment", "regulatory review"},
                      c \in {"Strong", "Moderate", "Limited", "Unverifiable"}}
                    \cup {TableList("Moderate"), TableList("Unverifiable")}}
    \cup {StrategicOptions(TableList("Limited"), Radar(1, 1), FALSE, TRUE, NoSignal)}

Citation(total, verified, fabricated, mismatched) ==
  JObj(<<Prop("totalCitations", JNum(total)), Prop("verifiedCitations", JNum(verified)),
         Prop("fabricatedCitations", JNum(fabricated)),
         Prop("mismatchedCitations", JNum(mismatched))>>)

Control(controlId, passed, severity) ==
  JObj(<<Prop("controlId", JStr(controlId)), Prop("passed", JBool(passed)),
         Prop("severity", JStr(severity))>>)

ControlChoices ==
  {Control("c1", TRUE, "LOW"), Control("c2", FALSE, "CRITICAL"), Control("c2", TRUE, "HIGH")}

\* avgRetrievalScore is given in tenths
Evidence(sourceCount, avgRetrievalScore, documentTypeCount) ==
  JObj(<<Prop("sourceCount", JNum(sourceCount)),
         Prop("avgRetrievalScore", JDec(avgRetrievalScore)),
         Prop("documentTypeCount", JNum(documentTypeCount))>>)

FullWorkflow ==
  JObj(<<Prop("hasDefinedBoundaries", JBool(TRUE)), Prop("hasRollbackPlan", JBool(TRUE)),
         Prop("hasMonitoringPlan", JBool(TRUE))>>)

TrustOptions(citationIntegrity, controlResults, evidenceMetrics, workflowContext, mc) ==
  [input |-> [citationIntegrity |-> citationIntegrity, controlResults |-> controlResults,
              evidenceMetrics |-> evidenceMetrics, workflowContext |-> workflowContext],
   monteCarloSignal |-> mc]

\* every citation record, every control list, every evidence record with every
\* workflow context, and every signal
TrustInputs ==
  {TrustOptions(Citation(c[1], c[2], c[3], c[4]), <<>>, Evidence(12, 10, 6), JUndefined,
                NoSignal) :
     c \in {q \in (0..MaxCitations) \X (0..MaxCitations) \X (0..MaxCitations)
                     \X (0..MaxCitations) : (q[2] + q[3]) + q[4] <= q[1]}}
    \cup {TrustOptions(Citation(2, 2, 0, 0), ctl, Evidence(12, 10, 6), JUndefined, NoSignal) :
            ctl \in SeqsUpTo(ControlChoices, MaxControls)}
    \cup {TrustOptions(Citation(2, 2, 0, 0), <<Control("c1", TRUE, "LOW")>>, e, wf, NoSignal) :
            e \in {Evidence(0, 0, 0), Evidence(3, 7, 1), Evidence(5, 5, 2), Evidence(12, 10, 6)},
            wf \in {JUndefined,
                    JObj(<<>>),
                    JObj(<<Prop("hasDefinedBoundaries", JBool(TRUE)),
                           Prop("hasRollbackPlan", JBool(FALSE))>>),
                    FullWorkflow}}
    \cup {TrustOptions(Citation(2, 2, 0, 0), <<Control("c1", TRUE, "LOW")>>,
                       Evidence(12, 10, 6), FullWorkflow, mc) : mc \in Signals}

\* the calls of the kernel: the function and its options
KernelCalls ==
  {[fn |-> "calculateStrategicConfidence", options |-> o] : o \in StrategicInputs}
    \cup {[fn |-> "calculateDecisionTrust", options |-> o] : o \in TrustInputs}

\* the calls made between a call and its repetition
BetweenCalls ==
  {[fn |-> "calculateStrategicConfidence",
    options |-> StrategicOptions(TableList("Limited"), Radar(1, 1), FALSE, TRUE,
                                 Signal(<<0, 1>>, 0, "STUB", FALSE))],
   [fn |-> "calculateDecisionTrust",
    options |-> TrustOptions(Citation(2, 1, 1, 0), <<Control("c2", FALSE, "CRITICAL")>>,
                             Evidence(5, 5, 2), JUndefined, NoSignal)]}

\* one call of the kernel, run to its result
Call(fn, options, clock, crypto) ==
  [fn |-> fn, options |-> options,
   result |-> IF fn = "calculateStrategicConfidence"
              THEN calculateStrategicConfidence(options, clock, crypto)
              ELSE calculateDecisionTrust(options, clock, crypto)]

(***************************************************************************)
(* Actions on the scoring kernel.  The kernel keeps nothing between calls: *)
(* its tables are constants no function writes, so a call reads only its   *)
(* options, the clock and the runtime.                                     *)
(***************************************************************************)
InitScore ==
  /\ events = <<>>
  /\ currentSequence = 0
  /\ now = 0
  /\ pending = <<>>
  /\ lastResult = NoResult
  /\ tampered = {}
  /\ hasCrypto \in BOOLEAN
  /\ scoreFirst = NoCall
  /\ between = NoCall
  /\ scoreLast = NoCall
  /\ completed = <<>>
  /\ config = DefaultConfig
  /\ hashed = <<>>

ScoreFirst ==
  /\ scoreFirst.fn = "none"
  /\ \E c \in KernelCalls : scoreFirst' = Call(c.fn, c.options, now, hasCrypto)
  /\ UNCHANGED <<chainVars, hasCrypto, between, scoreLast, lumenVars, hashed>>

ScoreBetween ==
  /\ scoreFirst.fn # "none"
  /\ between.fn = "none"
  /\ scoreLast.fn = "none"
  /\ \E c \in BetweenCalls : between' = Call(c.fn, c.options, now, hasCrypto)
  /\ UNCHANGED <<chainVars, hasCrypto, scoreFirst, scoreLast, lumenVars, hashed>>

\* the caller repeats the first call
ScoreAgain ==
  /\ scoreFirst.fn # "none"
  /\ scoreLast.fn = "none"
  /\ scoreLast' = Call(scoreFirst.fn, scoreFirst.options, now, hasCrypto)
  /\ UNCHANGED <<chainVars, hasCrypto, scoreFirst, between, lumenVars, hashed>>

\* the clock advances after the first call of the kernel, whose time is the origin
TickScore ==
  /\ scoreFirst.fn # "none"
  /\ now < MaxClock
  /\ now' = now + 1
  /\ UNCHANGED <<events, currentSequence, pending, lastResult, tampered>>
  /\ UNCHANGED <<scoreVars, lumenVars, hashed>>

NextScore ==
  \/ TickScore
  \/ ScoreFirst
  \/ ScoreBetween
  \/ ScoreAgain

SpecScore == InitScore /\ [][NextScore]_vars

(***************************************************************************)
(* Lumen (src/index.ts): one instance with its session audit chain.        *)
(***************************************************************************)

\* Date.now(): 1767225600000 at 2026-01-01T00:00:00.000Z, which is
\* 10240 + 7018 * 2^14 + 6583 * 2^28
DateNow(clock) == BigAdd(<<10240, 7018, 6583>>, BigFromInt(clock))

\* n.toString(36).toUpperCase() of a natural n > 0
RECURSIVE ToBase36Upper(_)
ToBase36Upper(x) ==
  IF x = <<>> THEN ""
  ELSE ToBase36Upper(BigTrim(BigDivRem(x, 36).q)) \o Digit(BigDivRem(x, 36).r, TRUE)

\* what Math.random().toString(36).substring(2, 8).toUpperCase() can give
Randoms == {"K3P9ZQ", "0AB12C"}

\* AuditEvent.ts generateDecisionId
generateDecisionId(clock, random) ==
  "LUMEN-" \o ToBase36Upper(DateNow(clock)) \o "-" \o random

\* PolicyPack.ts generateEvaluationId: the random part is substring(2, 6)
generateEvaluationId(clock, random) ==
  "EVAL-" \o ToBase36Upper(DateNow(clock)) \o "-" \o SubSeq(random, 1, 4)

\* JSON.stringify(value, list) with an array as the replacer: as Stringify, but
\* an object at any depth is written with the properties the list names that it
\* has, in the order of the list; the elements of an array are all written
RECURSIVE StringifyList(_, _)
RECURSIVE StringifyListProps(_, _, _, _)
RECURSIVE StringifyListItems(_, _, _)
StringifyListItems(kv, list, first) ==
  IF kv = <<>> THEN [ok |-> TRUE, out |-> ""]
  ELSE LET v == IF Head(kv).v.t = "undefined" THEN [ok |-> TRUE, out |-> "null"]
                ELSE StringifyList(Head(kv).v, list)
           rest == StringifyListItems(Tail(kv), list, FALSE)
       IN IF ~v.ok \/ ~rest.ok THEN [ok |-> FALSE, out |-> ""]
          ELSE [ok |-> TRUE,
                out |-> (IF first THEN "" ELSE ",") \o v.out \o rest.out]

\* the properties of obj that list names from its entry i on
StringifyListProps(obj, list, i, first) ==
  IF i > Len(list) THEN [ok |-> TRUE, out |-> ""]
  ELSE IF Get(obj, list[i]).t = "undefined" THEN StringifyListProps(obj, list, i + 1, first)
  ELSE LET v == StringifyList(Get(obj, list[i]), list)
           rest == StringifyListProps(obj, list, i + 1, FALSE)
       IN IF ~v.ok \/ ~rest.ok THEN [ok |-> FALSE, out |-> ""]
          ELSE [ok |-> TRUE,
                out |-> (IF first THEN "" ELSE ",") \o Quote(list[i])
                        \o ":" \o v.out \o rest.out]

StringifyList(v, list) ==
  CASE v.t = "obj" -> LET p == StringifyListProps(v, list, 1, TRUE)
                      IN IF p.ok THEN [ok |-> TRUE, out |-> "{" \o p.out \o "}"]
                         ELSE p
    [] v.t = "arr" -> LET p == StringifyListItems(v.kv, list, TRUE)
                      IN IF p.ok THEN [ok |-> TRUE, out |-> "[" \o p.out \o "]"]
                         ELSE p
    [] OTHER -> Stringify(v)

\* Object.keys(obj): the keys of an object in insertion order, the indices of an
\* array, nothing for a number or a boolean
ObjectKeys(obj) ==
  IF obj.t = "arr" THEN [i \in 1..Len(obj.kv) |-> NumStr(i - 1)]
  ELSE [i \in 1..Len(obj.kv) |-> obj.kv[i].k]

\* keys.sort() with no comparator: the order of the UTF-16 code units
RECURSIVE SortStrings(_)
SortStrings(keys) ==
  IF keys = <<>> THEN <<>>
  ELSE LET last == keys[Len(keys)]
           front == SortStrings(SubSeq(keys, 1, Len(keys) - 1))
           after == {i \in 1..Len(front) : StrLess(last, front[i])}
           at == IF after = {} THEN Len(front) + 1
                 ELSE CHOOSE i \in after : \A j \in after : i <= j
       IN SubSeq(front, 1, at - 1) \o <<last>> \o SubSeq(front, at, Len(front))

\* AuditEvent.ts line 454: the text hashObject hashes.  The sorted keys of obj
\* itself are the replacer, so they are the list for the objects inside it too
CanonicalText(obj) == StringifyList(obj, SortStrings(ObjectKeys(obj)))

\* AuditEvent.ts hashObject: [ok |-> FALSE] when it throws, as Object.keys does
\* for undefined and null
hashObject(obj) ==
  IF obj.t \in {"undefined", "null"} \/ ~CanonicalText(obj).ok THEN [ok |-> FALSE, out |-> ""]
  ELSE [ok |-> TRUE, out |-> "sha256:" \o Hex16(MathAbs(RollingHash(CanonicalText(obj).out)))]

\* AuditEvent.ts line 464
SDK_VERSION == "1.0.0"

\* { ...kv, k: v }: the property takes the place of one of the same key
Assign(kv, k, v) ==
  IF \E i \in 1..Len(kv) : kv[i].k = k
  THEN [i \in 1..Len(kv) |-> IF kv[i].k = k THEN Prop(k, v) ELSE kv[i]]
  ELSE Append(kv, Prop(k, v))

\* AuditEvent.ts line 422: { ...params, decisionId, createdAt: now }
RecordObject(params, decisionId, createdAt) ==
  JObj(Assign(Assign(params.kv, "decisionId", JStr(decisionId)),
              "createdAt", JStr(createdAt)))

\* AuditEvent.ts lines 424-434: the record returned, from the three hashes
DecisionRecordWith(params, decisionId, createdAt, inputsCanonicalHash, outputsCanonicalHash, recordHash) ==
  IF ~inputsCanonicalHash.ok \/ ~outputsCanonicalHash.ok \/ ~recordHash.ok
  THEN [threw |-> TRUE, record |-> JUndefined]
  ELSE [threw |-> FALSE,
        record |->
          JObj(Assign(Assign(RecordObject(params, decisionId, createdAt).kv,
                             "sdkVersion", JStr(SDK_VERSION)),
                      "hashes",
                      JObj(<<Prop("inputsCanonicalHash", JStr(inputsCanonicalHash.out)),
                             Prop("outputsCanonicalHash", JStr(outputsCanonicalHash.out)),
                             Prop("recordHash", JStr(recordHash.out)),
                             Prop("hashAlgorithm", JStr("SHA-256"))>>)))]

\* AuditEvent.ts createDecisionRecord(params).  It checks nothing of params: it
\* throws only where hashObject does
createDecisionRecord(params, clock, random) ==
  DecisionRecordWith(params, generateDecisionId(clock, random), ToISOString(clock),
                     hashObject(Get(params, "inputs")),
                     hashObject(Get(params, "aiOutputs")),
                     hashObject(RecordObject(params, generateDecisionId(clock, random),
                                             ToISOString(clock))))

\* index.ts lines 351-383, 540-570: the record createDecisionRecord returns to a
\* Lumen instance, as far as the instance reads it: the id and the time.  The
\* parameters the instance builds are objects of strings, for which
\* createDecisionRecord does not throw
DecisionRecordOf(clock, random) ==
  [decisionId |-> generateDecisionId(clock, random), createdAt |-> ToISOString(clock)]

\* PolicyPack.ts determineRiskTier
determineRiskTier(lumenScore) ==
  IF lumenScore < 55 THEN 1 ELSE IF lumenScore < 75 THEN 2 ELSE 3

\* a signal that blocks a low score in every mode
determineSignal_blocking(lumenScore, checks, enforcementMode) ==
  IF enforcementMode = "STRICT" /\ (\E i \in 1..Len(checks) : checks[i].status = "FAILED")
  THEN "BLOCK"
  ELSE IF lumenScore < 40 THEN "BLOCK"
  ELSE IF lumenScore < 60 THEN "WARN"
  ELSE "ALLOW"

\* a signal whose band of warnings ends at 55
determineSignal_narrow(lumenScore, checks, enforcementMode) ==
  IF enforcementMode = "STRICT" /\ (\E i \in 1..Len(checks) : checks[i].status = "FAILED")
  THEN "BLOCK"
  ELSE IF lumenScore < 40 THEN (IF enforcementMode = "ADVISORY" THEN "WARN" ELSE "BLOCK")
  ELSE IF lumenScore < 55 THEN "WARN"
  ELSE "ALLOW"

\* PolicyPack.ts determineSignal
determineSignal(lumenScore, checks, enforcementMode) ==
  IF enforcementMode = "STRICT" /\ (\E i \in 1..Len(checks) : checks[i].status = "FAILED")
  THEN "BLOCK"
  ELSE IF lumenScore < 40 THEN (IF enforcementMode = "ADVISORY" THEN "WARN" ELSE "BLOCK")
  ELSE IF lumenScore < 60 THEN "WARN"
  ELSE "ALLOW"

\* PolicyPack.ts createEvaluation lines 541-562: a reason for each check that
\* failed, in the order of the checks, then one for a fatal flaw
EvaluationReasons(failed, fatalFlawDetected) ==
  [i \in 1..Len(failed) |->
     [code |-> "FAILED_" \o failed[i].checkId, severity |-> "ERROR",
      ruleId |-> failed[i].checkId]]
    \o (IF fatalFlawDetected
        THEN <<[code |-> "FATAL_FLAW", severity |-> "CRITICAL", ruleId |-> Undefined]>>
        ELSE <<>>)

\* PolicyPack.ts createEvaluation: the id, the signal, the score breakdown and
\* the checks as they were given, and the reasons
createEvaluation(scoreBreakdown, checks, enforcementMode, clock, random) ==
  [evaluationId |-> generateEvaluationId(clock, random),
   signal |-> [status |-> determineSignal(scoreBreakdown.finalScore, checks, enforcementMode),
               lumenScore |-> scoreBreakdown.finalScore,
               tier |-> determineRiskTier(scoreBreakdown.finalScore)],
   scoreBreakdown |-> scoreBreakdown,
   checks |-> checks,
   reasons |-> EvaluationReasons(SelectSeq(checks, LAMBDA c : c.status = "FAILED"),
                                 scoreBreakdown.fatalFlawDetected),
   fatalFlawDetected |-> scoreBreakdown.fatalFlawDetected]

\* Lumen.calculateLumenScore, lines 787-803: totalWeight and weightedSum after the
\* factors from i on
RECURSIVE LumenSums(_, _, _, _)
LumenSums(factors, totalWeight, weightedSum, i) ==
  IF i > Len(factors) THEN [totalWeight |-> totalWeight, weightedSum |-> weightedSum]
  ELSE LumenSums(factors,
                 DblAdd(totalWeight, Dec(factors[i].weight)),
                 DblAdd(weightedSum,
                        DblMul(DblInt(factors[i].numericScore), Dec(factors[i].weight))),
                 i + 1)

\* Lumen.calculateLumenScore reads nothing of its input.  Its five factors are
\* literals (lines 773-785: the numericScore of the confidence, and the weight in
\* hundredths), and so is the radar, which has no Red axis and two Amber ones
\* (labour, finance).  The weights add up to the double 1, and a / 1 is a
calculateLumenScore ==
  LET sums == LumenSums(<<[numericScore |-> 70, weight |-> 20],
                          [numericScore |-> 90, weight |-> 25],
                          [numericScore |-> 70, weight |-> 20],
                          [numericScore |-> 45, weight |-> 15],
                          [numericScore |-> 70, weight |-> 20]>>, DblZero, DblZero, 1)
      baseScore == IF sums.totalWeight = DblInt(1) THEN sums.weightedSum ELSE NaN
      redCount == 0
      amberCount == 2
      riskModifier == IF redCount >= 2 THEN Dec(75)
                      ELSE IF redCount = 1 THEN Dec(85)
                      ELSE IF amberCount >= 3 THEN Dec(90)
                      ELSE IF amberCount >= 2 THEN Dec(95)
                      ELSE DblInt(1)
  IN [finalScore |-> MathRound(DblMul(baseScore, riskModifier)).v,
      riskModifier |-> riskModifier,
      fatalFlawDetected |-> FALSE]

\* Lumen.runPolicyChecks: three literal checks
runPolicyChecks ==
  <<[checkId |-> "phipa-001", status |-> "PASSED"],
    [checkId |-> "phipa-002", status |-> "PASSED"],
    [checkId |-> "phipa-003", status |-> "PASSED"]>>

\* Lumen.calculatePackBasedScore
calculatePackBasedScore(criticalFailures, highFailures, mediumFailures) ==
  [finalScore |->
     MaxInt(0, MinInt(100, ((85 - (criticalFailures * 25)) - (highFailures * 10))
                             - (mediumFailures * 5))),
   legal |-> IF criticalFailures > 0 THEN "Red"
             ELSE IF highFailures > 0 THEN "Amber" ELSE "Green",
   reputation |-> IF criticalFailures > 0 THEN "Amber" ELSE "Green",
   riskModifier |-> DblInt(1),
   fatalFlawDetected |-> criticalFailures > 2]

\* the rules of the two bundled packs (packs/ca-on-phipa.ts): id and severity
caOnPhipa ==
  <<
    [id |-> "phipa-s4-def-phi", severity |-> "critical"],
    [id |-> "phipa-s12-1-collection-direct", severity |-> "high"],
    [id |-> "phipa-s12-2-lawful-collection", severity |-> "high"],
    [id |-> "phipa-s15-consent-required", severity |-> "critical"],
    [id |-> "phipa-s17-use-limitation", severity |-> "critical"],
    [id |-> "phipa-s18-disclosure-rules", severity |-> "critical"],
    [id |-> "phipa-s20-deemed-consent", severity |-> "high"],
    [id |-> "phipa-s23-access-rights", severity |-> "high"],
    [id |-> "phipa-s25-correction-rights", severity |-> "medium"],
    [id |-> "phipa-s10-security-safeguards", severity |-> "critical"],
    [id |-> "phipa-s10-3-storage", severity |-> "high"],
    [id |-> "phipa-reg329-ehr", severity |-> "high"],
    [id |-> "phipa-breach-notification", severity |-> "critical"],
    [id |-> "phipa-retention", severity |-> "medium"],
    [id |-> "phipa-agent-access", severity |-> "high"],
    [id |-> "phipa-substitute-decision", severity |-> "high"],
    [id |-> "phipa-deidentification", severity |-> "medium"]
  >>

usFedHipaa ==
  <<
    [id |-> "hipaa-164-502-minimum-necessary", severity |-> "critical"],
    [id |-> "hipaa-164-508-authorization", severity |-> "critical"],
    [id |-> "hipaa-164-512-treatment", severity |-> "high"],
    [id |-> "hipaa-164-512-payment", severity |-> "high"],
    [id |-> "hipaa-164-512-hco", severity |-> "high"],
    [id |-> "hipaa-164-514-safe-harbor", severity |-> "high"],
    [id |-> "hipaa-164-514-expert", severity |-> "high"],
    [id |-> "hipaa-164-520-npp", severity |-> "high"],
    [id |-> "hipaa-164-524-access", severity |-> "critical"],
    [id |-> "hipaa-164-526-amendment", severity |-> "medium"],
    [id |-> "hipaa-164-530-training", severity |-> "high"],
    [id |-> "hipaa-164-530-sanctions", severity |-> "medium"],
    [id |-> "hipaa-164-530-privacy-officer", severity |-> "high"],
    [id |-> "hipaa-164-308-admin-safeguards", severity |-> "critical"],
    [id |-> "hipaa-164-310-physical-safeguards", severity |-> "critical"],
    [id |-> "hipaa-164-312-technical-safeguards", severity |-> "critical"],
    [id |-> "hipaa-164-312-access-control", severity |-> "critical"],
    [id |-> "hipaa-164-312-encryption", severity |-> "high"],
    [id |-> "hipaa-164-312-audit", severity |-> "high"],
    [id |-> "hipaa-164-402-breach-notification", severity |-> "critical"],
    [id |-> "hipaa-hitech-baa", severity |-> "critical"],
    [id |-> "hipaa-hitech-security-officer", severity |-> "high"]
  >>

\* packs/ca-on-phipa.ts bundledPacks
bundledPacks == [p \in {"ca-on-phipa", "us-fed-hipaa"} |->
                   IF p = "ca-on-phipa" THEN caOnPhipa ELSE usFedHipaa]

\* a PHIPA context with no field: a boolean field holds "true", "false" or
\* Undefined, a string field its text or Undefined, phiTypes and safeguards
\* their items (none when undefined), retentionDays its number if it has one
EmptyContext ==
  [f \in {"phiPresent", "collectedFromIndividual", "userRole", "purpose",
          "hasExplicitConsent", "consentType", "isHealthcareProvision", "isTPO",
          "patientAccessRequest", "correctionRequest", "custodianId",
          "isCanadianResidency", "encryptionAtRest", "accessControlsImplemented",
          "isEHRSystem", "auditLoggingEnabled", "breachDetected", "breachScope",
          "breachNotificationSent", "substituteDecisionMaker", "isDeIdentified"} |->
     Undefined]
    @@ [phiTypes |-> <<>>, safeguards |-> <<>>, retentionDays |-> <<>>]

\* packs/ca-on-phipa.ts line 376: safeguards.some(s => s.toLowerCase().includes(word))
SomeSafeguard(safeguards, word) ==
  \E i \in 1..Len(safeguards) : Includes(ToLowerCase(safeguards[i]), word)

\* packs/ca-on-phipa.ts lines 125-466: the evaluators of the seventeen rules of
\* the PHIPA pack, in the order of the pack; TRUE where the rule passes.  A
\* field is truthy when it holds "true" or a text that is not empty
PhipaEvaluators(ctx) ==
  LET phi == ctx.phiPresent = "true"
      consent == ctx.hasExplicitConsent = "true"
      provision == ctx.isHealthcareProvision = "true"
      isTPO == ctx.isTPO = "true"
  IN << \* phipa-s4-def-phi
        ~(ctx.phiPresent = Undefined) /\ ~(phi /\ Len(ctx.phiTypes) = 0),
        \* phipa-s12-1-collection-direct
        ~phi \/ ctx.collectedFromIndividual = "true" \/ ctx.userRole = "custodian",
        \* phipa-s12-2-lawful-collection
        ~phi \/ ctx.purpose # Undefined,
        \* phipa-s15-consent-required
        \/ ~phi
        \/ consent
        \/ (ctx.consentType = "deemed" /\ provision)
        \/ isTPO
        \/ ctx.patientAccessRequest = "true",
        \* phipa-s17-use-limitation
        ~phi \/ (ctx.purpose # Undefined /\ (provision \/ isTPO \/ consent)),
        \* phipa-s18-disclosure-rules
        \/ ~phi
        \/ consent
        \/ (provision /\ ctx.userRole = "healthcare_provider")
        \/ isTPO,
        \* phipa-s20-deemed-consent
        ~phi \/ ~provision \/ ctx.consentType \in {"deemed", "express"},
        \* phipa-s23-access-rights
        ~(ctx.patientAccessRequest = "true" /\ ctx.hasExplicitConsent = "false"),
        \* phipa-s25-correction-rights
        ~(ctx.correctionRequest = "true" /\ ctx.custodianId = Undefined),
        \* phipa-s10-security-safeguards
        \/ ~phi
        \/ /\ (SomeSafeguard(ctx.safeguards, "administrative")
                \/ SomeSafeguard(ctx.safeguards, "admin"))
           /\ SomeSafeguard(ctx.safeguards, "physical")
           /\ (SomeSafeguard(ctx.safeguards, "technical")
                \/ SomeSafeguard(ctx.safeguards, "encrypt")),
        \* phipa-s10-3-storage
        \/ ~phi
        \/ /\ ctx.isCanadianResidency # "false"
           /\ ctx.encryptionAtRest = "true"
           /\ ctx.accessControlsImplemented = "true",
        \* phipa-reg329-ehr
        \/ ctx.isEHRSystem # "true"
        \/ (ctx.auditLoggingEnabled = "true" /\ ctx.accessControlsImplemented = "true"),
        \* phipa-breach-notification
        \/ ctx.breachDetected # "true"
        \/ ctx.breachScope = "minor"
        \/ ctx.breachNotificationSent = "true",
        \* phipa-retention
        ~phi \/ (Len(ctx.retentionDays) > 0 /\ ~(ctx.retentionDays[1] < 10 * 365)),
        \* phipa-agent-access
        ~phi \/ ~(ctx.userRole = "agent" /\ ctx.custodianId = Undefined),
        \* phipa-substitute-decision
        ctx.substituteDecisionMaker # "true" \/ consent,
        \* phipa-deidentification
        TRUE >>

\* index.ts line 518 for the PHIPA pack: the context as the set of the rules
\* whose evaluator does not pass it
PhipaContext(ctx) ==
  [defined |-> TRUE,
   failing |-> {i \in 1..Len(PhipaEvaluators(ctx)) : ~PhipaEvaluators(ctx)[i]}]

\* a lookup that answers an id no pack has with the first pack
getPackById_defaulting(id) ==
  [truthy |-> TRUE, iterable |-> TRUE,
   rules |-> bundledPacks[IF id \in DOMAIN bundledPacks THEN id ELSE "ca-on-phipa"]]

\* packs/ca-on-phipa.ts getPackById: bundledPacks[id] on an object literal.  An
\* id that names a member of Object.prototype gets that member, which is truthy
\* and has no rules; any other id that is not a pack gets undefined
getPackById(id) ==
  IF id \in DOMAIN bundledPacks
  THEN [truthy |-> TRUE, iterable |-> TRUE, rules |-> bundledPacks[id]]
  ELSE [truthy |-> id \in ObjectPrototypeKeys, iterable |-> FALSE, rules |-> <<>>]

\* lines 326-330: the append call of the constructor
SessionStartedCall ==
  [eventType |-> "SESSION_STARTED", actor |-> systemActor("LumenSDK"),
   payload |-> JObj(<<Prop("config", JObj(<<Prop("domain", JStr("healthcare")),
                                            Prop("region", JStr("canada"))>>))>>),
   decisionId |-> Undefined, evaluationId |-> Undefined]

\* lines 386-391
DecisionCreatedCall(decisionRecord) ==
  [eventType |-> "DECISION_CREATED", actor |-> systemActor("LumenSDK"),
   payload |-> JObj(<<Prop("decisionId", JStr(decisionRecord.decisionId))>>),
   decisionId |-> decisionRecord.decisionId, evaluationId |-> Undefined]

\* lines 423-433
EvaluationCompletedCall(decisionRecord, evaluation) ==
  [eventType |-> "EVALUATION_COMPLETED", actor |-> systemActor("LumenSDK"),
   payload |-> JObj(<<Prop("evaluationId", JStr(evaluation.evaluationId)),
                      Prop("lumenScore", JNum(evaluation.signal.lumenScore)),
                      Prop("verdict", JStr(evaluation.signal.status))>>),
   decisionId |-> decisionRecord.decisionId, evaluationId |-> evaluation.evaluationId]

\* lines 445-456: what evaluate returns, with the chain as the second append left it
EvaluateReturn(logged, decisionRecord, evaluation) ==
  [threw |-> FALSE, events |-> logged.events, currentSequence |-> logged.currentSequence,
   out |-> [recordId |-> decisionRecord.decisionId,
            lumenScore |-> evaluation.signal.lumenScore,
            tier |-> evaluation.signal.tier,
            verdict |-> evaluation.signal.status,
            passed |-> evaluation.signal.status = "ALLOW"]]

\* an evaluate that returns without its second append
EvaluateCompleted_silent(created, clock, decisionRecord, evaluation) ==
  EvaluateReturn(created, decisionRecord, evaluation)

\* lines 423-456: the second append, on the chain as the first one left it
EvaluateCompleted(created, clock, decisionRecord, evaluation) ==
  EvaluateReturn(append(created.events, created.currentSequence, clock,
                        EvaluationCompletedCall(decisionRecord, evaluation)),
                 decisionRecord, evaluation)

\* lines 386-456: the first append, the score, the checks and the evaluation
EvaluateRecorded(evs, seq, clock, cfg, decisionRecord, random) ==
  EvaluateCompleted(append(evs, seq, clock, DecisionCreatedCall(decisionRecord)), clock,
                    decisionRecord,
                    createEvaluation(calculateLumenScore, runPolicyChecks,
                                     cfg.enforcementMode, clock, random))

\* Lumen.evaluate.  It has no await: it runs to its return in one step.  Line 362
\* serialises input.context || {} before anything is appended, and throws when
\* that cannot be serialised.  The payloads of its two events are strings and a
\* number, which append can always hash
evaluate(evs, seq, clock, cfg, context, randomD, randomE) ==
  IF ~Stringify(IF Truthy(context) THEN context ELSE JObj(<<>>)).ok
  THEN [threw |-> TRUE, events |-> evs, currentSequence |-> seq, out |-> <<>>]
  ELSE EvaluateRecorded(evs, seq, clock, cfg, DecisionRecordOf(clock, randomD), randomE)

\* the context values evaluate is called with
Contexts == {JUndefined, JObj(<<Prop("k", JStr("aaad"))>>), JCyclic}

\* what a rejected call of evaluateWithPack is rejected with: the Error of line
\* 498, the TypeError of the for-of of line 517 over rules that are undefined,
\* or the TypeError of an evaluator called at line 518 that reads a property
\* of a context that is undefined or null (the loop has no try)
PackError(thrownBy, packId) ==
  [threw |-> TRUE,
   out |-> IF thrownBy = "throw"
           THEN [name |-> "Error",
                 message |-> "Policy pack not found: " \o packId
                               \o ". Available packs: ca-on-phipa, us-fed-hipaa"]
           ELSE IF thrownBy = "for-of"
           THEN [name |-> "TypeError", message |-> "pack.rules is not iterable"]
           ELSE [name |-> "TypeError",
                 message |-> "Cannot read properties of undefined (reading 'phiPresent')"]]

\* lines 541-574 and 668-699: what the result holds of the decision record made
\* for a pack evaluation
PackDecisionRecord(workflowId, packId, decisionRecord) ==
  [decisionId |-> decisionRecord.decisionId, createdAt |-> decisionRecord.createdAt,
   workflowId |-> workflowId, policyContext |-> [packId |-> packId]]

\* lines 512-537: the failures of one severity ("medium" counts every severity
\* that is neither critical nor high).  A rule evaluator is a function of the
\* context alone; a context that is an object is given by the set of rules it
\* fails
PackFailures(rules, failing, severity) ==
  Cardinality({i \in failing \cap (1..Len(rules)) :
                 IF severity = "medium" THEN rules[i].severity \notin {"critical", "high"}
                 ELSE rules[i].severity = severity})

\* a loop that leaves at the first critical rule that fails
PackResults_untilCritical(rules, failing) ==
  LET stop == {i \in failing \cap (1..Len(rules)) : rules[i].severity = "critical"}
      last == IF stop = {} THEN Len(rules) ELSE CHOOSE i \in stop : \A j \in stop : i <= j
  IN [i \in 1..last |->
        [ruleId |-> rules[i].id, severity |-> rules[i].severity, passed |-> i \notin failing]]

\* lines 517-528: one result for each rule of the pack, in the order of the pack
PackResults(rules, failing) ==
  [i \in 1..Len(rules) |->
     [ruleId |-> rules[i].id, severity |-> rules[i].severity, passed |-> i \notin failing]]

\* lines 540-601: the decision record, the score, the summary and the result
PackReturn(packId, rules, failing, decisionRecord, criticalFailures, highFailures, mediumFailures) ==
  [threw |-> FALSE,
   out |-> [decisionRecord |-> PackDecisionRecord("pack-evaluation", packId, decisionRecord),
            scoreBreakdown |->
              calculatePackBasedScore(criticalFailures, highFailures, mediumFailures),
            packResults |-> PackResults(rules, failing),
            summary |-> [packId |-> packId,
                         totalRules |-> Len(rules),
                         passed |-> Cardinality((1..Len(rules)) \ failing),
                         failed |-> (criticalFailures + highFailures) + mediumFailures,
                         criticalFailures |-> criticalFailures,
                         highFailures |-> highFailures,
                         mediumFailures |-> mediumFailures],
            passed |-> criticalFailures = 0]]

\* lines 654-725: the result built from the answer of the hosted API
transformAPIResult(packId, apiResult, decisionRecord) ==
  [threw |-> FALSE,
   out |-> [decisionRecord |-> PackDecisionRecord("pack-evaluation-api", packId, decisionRecord),
            scoreBreakdown |-> calculatePackBasedScore(apiResult.criticalFailures, 0, 0),
            packResults |-> apiResult.results,
            summary |-> [packId |-> packId,
                         totalRules |-> apiResult.totalRules,
                         passed |-> apiResult.passed,
                         failed |-> apiResult.failed,
                         criticalFailures |-> apiResult.criticalFailures,
                         highFailures |-> 0,
                         mediumFailures |-> 0],
            passed |-> apiResult.criticalFailures = 0]]

\* the hosted API was not asked, or it failed
NoApiResponse ==
  [ok |-> FALSE, results |-> <<>>, totalRules |-> 0, passed |-> 0, failed |-> 0,
   criticalFailures |-> 0]

\* what the hosted API answers: an error, the outcome of a pack of MaxFailing
\* critical rules, or the outcome of a pack of one rule of high severity,
\* which failed
ApiResponses ==
  {NoApiResponse}
    \cup {[ok |-> TRUE,
           results |-> [i \in 1..MaxFailing |->
                          [ruleId |-> "hosted", severity |-> "critical", passed |-> i > c]],
           totalRules |-> MaxFailing, passed |-> MaxFailing - c, failed |-> c,
           criticalFailures |-> c] : c \in 0..MaxFailing}
    \cup {[ok |-> TRUE,
           results |-> <<[ruleId |-> "hosted", severity |-> "high", passed |-> FALSE]>>,
           totalRules |-> 1, passed |-> 0, failed |-> 1, criticalFailures |-> 0]}

\* an evaluation that does not fall back when the instance has an API key
evaluateWithPack_hostedOnly(cfg, clock, packId, context, apiResult, random) ==
  IF cfg.apiKey /\ apiResult.ok
  THEN transformAPIResult(packId, apiResult, DecisionRecordOf(clock, random))
  ELSE IF cfg.apiKey \/ ~getPackById(packId).truthy THEN PackError("throw", packId)
  ELSE IF ~getPackById(packId).iterable THEN PackError("for-of", packId)
  ELSE IF ~context.defined THEN PackError("evaluator", packId)
  ELSE PackReturn(packId, getPackById(packId).rules, context.failing,
                  DecisionRecordOf(clock, random),
                  PackFailures(getPackById(packId).rules, context.failing, "critical"),
                  PackFailures(getPackById(packId).rules, context.failing, "high"),
                  PackFailures(getPackById(packId).rules, context.failing, "medium"))

\* Lumen.evaluateWithPack.  While it waits for the hosted API it holds no state
\* of the instance, and it writes none afterwards: the wait is not a separate
\* step.  No path of it calls auditChain.append.  The first rule of either
\* pack reads ctx.phiPresent: called with a context that is undefined, its
\* evaluator throws, and the loop of lines 517-537 does not catch it
evaluateWithPack(cfg, clock, packId, context, apiResult, random) ==
  IF cfg.apiKey /\ apiResult.ok
  THEN transformAPIResult(packId, apiResult, DecisionRecordOf(clock, random))
  ELSE IF ~getPackById(packId).truthy THEN PackError("throw", packId)
  ELSE IF ~getPackById(packId).iterable THEN PackError("for-of", packId)
  ELSE IF ~context.defined THEN PackError("evaluator", packId)
  ELSE PackReturn(packId, getPackById(packId).rules, context.failing,
                  DecisionRecordOf(clock, random),
                  PackFailures(getPackById(packId).rules, context.failing, "critical"),
                  PackFailures(getPackById(packId).rules, context.failing, "high"),
                  PackFailures(getPackById(packId).rules, context.failing, "medium"))

\* the pack ids evaluateWithPack is called with: the two bundled ones, one that
\* nothing has, and one that Object.prototype has
PackIds == {"ca-on-phipa", "us-fed-hipaa", "ca-bc-pipa", "constructor"}

\* the sets of failing rules: those among the first MaxFailing rules, or the
\* first four critical rules of the pack with them
FailingSets == SUBSET (1..MaxFailing) \cup {{1, 4, 5, 6} \cup (1..MaxFailing)}

\* the contexts evaluateWithPack is called with: an object, or undefined
PackContexts ==
  {[defined |-> TRUE, failing |-> failing] : failing \in FailingSets}
    \cup {[defined |-> FALSE, failing |-> {}]}

(***************************************************************************)
(* Actions on a Lumen instance.                                            *)
(***************************************************************************)
\* the state after new Lumen(config): the chain holds SESSION_STARTED
InitLumen ==
  /\ config \in Configs
  /\ events = append(<<>>, 0, 0, SessionStartedCall).events
  /\ currentSequence = append(<<>>, 0, 0, SessionStartedCall).currentSequence
  /\ now = 0
  /\ pending = <<>>
  /\ lastResult = NoResult
  /\ tampered = {}
  /\ hasCrypto = TRUE
  /\ scoreFirst = NoCall
  /\ between = NoCall
  /\ scoreLast = NoCall
  /\ completed = <<>>
  /\ hashed = <<>>

Evaluate ==
  /\ Len(completed) < MaxEvaluations
  /\ \E context \in Contexts, randomD \in Randoms, randomE \in Randoms :
       LET r == evaluate(events, currentSequence, now, config, context, randomD, randomE)
       IN /\ events' = r.events
          /\ currentSequence' = r.currentSequence
          /\ lastResult' = Result("evaluate", r.threw, TRUE, -1, r.out)
          /\ completed' = IF r.threw THEN completed
                          ELSE Append(completed, [op |-> "evaluate",
                                                  decisionId |-> r.out.recordId])
  /\ UNCHANGED <<now, pending, tampered, scoreVars, config, hashed>>

EvaluateWithPack ==
  /\ Len(completed) < MaxEvaluations
  /\ \E packId \in PackIds, context \in PackContexts, random \in Randoms :
       \E apiResult \in IF config.apiKey THEN ApiResponses ELSE {NoApiResponse} :
         LET r == evaluateWithPack(config, now, packId, context, apiResult, random)
         IN /\ lastResult' = Result("evaluateWithPack", r.threw, TRUE, -1, r.out)
            /\ completed' = IF r.threw THEN completed
                            ELSE Append(completed,
                                        [op |-> "evaluateWithPack",
                                         decisionId |-> r.out.decisionRecord.decisionId])
  /\ UNCHANGED <<events, currentSequence, now, pending, tampered, scoreVars, config, hashed>>

\* Lumen.getAuditTrail
GetAuditTrail ==
  /\ lastResult' = Result("getAuditTrail", FALSE, TRUE, -1, getEvents(events))
  /\ UNCHANGED <<events, currentSequence, now, pending, tampered>>
  /\ UNCHANGED <<scoreVars, lumenVars, hashed>>

\* Lumen.verifyAuditIntegrity
VerifyAuditIntegrity ==
  /\ LET v == verifyIntegrity(events)
     IN lastResult' = Result("verifyAuditIntegrity", FALSE, v.valid, v.brokenAt, <<>>)
  /\ UNCHANGED <<events, currentSequence, now, pending, tampered>>
  /\ UNCHANGED <<scoreVars, lumenVars, hashed>>

NextLumen ==
  \/ Tick
  \/ Evaluate
  \/ EvaluateWithPack
  \/ GetAuditTrail
  \/ VerifyAuditIntegrity

SpecLumen == InitLumen /\ [][NextLumen]_vars

(***************************************************************************)
(* The functions that hash what they are given, called by a caller of the  *)
(* library: createDecisionRecord, append on a new AuditChain, and the two  *)
(* functions of the scoring kernel.                                        *)
(***************************************************************************)
\* the parameters of createDecisionRecord: one field of requestContext and of
\* policyContext, one source pointer, and generatedContent where it is given
Params(subjectId, action, outputHash, contentHash, generatedContent) ==
  JObj(<<Prop("tenantId", JStr("t1")),
         Prop("subjectId", JStr(subjectId)),
         Prop("workflowId", JStr("w1")),
         Prop("requestContext", JObj(<<Prop("userRole", JStr("PHYSICIAN"))>>)),
         Prop("inputs",
              JObj(<<Prop("inputsHash", JStr("sha256:01")),
                     Prop("dataCategories", JArr(<<JStr("labs")>>)),
                     Prop("sourcePointers",
                          JArr(<<JObj(<<Prop("systemId", JStr("ehr")),
                                        Prop("contentHash", JStr(contentHash))>>)>>))>>)),
         Prop("aiOutputs",
              JObj(<<Prop("modelId", JStr("m1")),
                     Prop("outputHash", JStr(outputHash)),
                     Prop("generatedContent", generatedContent),
                     Prop("latencyMs", JNum(0))>>)),
         Prop("humanAction",
              JObj(<<Prop("action", JStr(action)), Prop("actorId", JStr("user"))>>)),
         Prop("policyContext", JObj(<<Prop("packId", JStr("ca-on-phipa"))>>))>>)

\* the same value with the keys of every object in it inserted in the opposite
\* order; the elements of an array keep their places
RECURSIVE Reversed(_)
Reversed(v) ==
  IF v.t = "obj"
  THEN JObj([i \in 1..Len(v.kv) |->
               Prop(v.kv[(Len(v.kv) + 1) - i].k, Reversed(v.kv[(Len(v.kv) + 1) - i].v))])
  ELSE IF v.t = "arr" THEN JArr([i \in 1..Len(v.kv) |-> Reversed(v.kv[i].v)])
  ELSE v

\* the object without a property
Without(obj, key) == JObj(SelectSeq(obj.kv, LAMBDA p : p.k # key))

\* parameters of hashes and pointers, the same with the keys in the opposite
\* order, one changed field each (subjectId, humanAction.action,
\* aiOutputs.outputHash, inputs.sourcePointers[0].contentHash), raw generated
\* text in aiOutputs, and parameters without humanAction and without inputs
RecordParams ==
  {Params("anon", "ACCEPTED", "sha256:03", "sha256:02", JUndefined),
   Reversed(Params("anon", "ACCEPTED", "sha256:03", "sha256:02", JUndefined)),
   Params("s2", "ACCEPTED", "sha256:03", "sha256:02", JUndefined),
   Params("anon", "REJECTED", "sha256:03", "sha256:02", JUndefined),
   Params("anon", "ACCEPTED", "sha256:04", "sha256:02", JUndefined),
   Params("anon", "ACCEPTED", "sha256:03", "sha256:05", JUndefined),
   Params("anon", "ACCEPTED", "sha256:03", "sha256:02", JStr("Jane Doe, 1980-02-03: sepsis")),
   Without(Params("anon", "ACCEPTED", "sha256:03", "sha256:02", JUndefined), "humanAction"),
   Without(Params("anon", "ACCEPTED", "sha256:03", "sha256:02", JUndefined), "inputs")}

\* the payloads of the events appended to a new chain
HashedPayloads ==
  {JObj(<<Prop("a", JNum(1)), Prop("b", JNum(2))>>),
   JObj(<<Prop("b", JNum(2)), Prop("a", JNum(1))>>),
   JObj(<<Prop("a", JNum(1)), Prop("b", JNum(3))>>)}

\* the elements of an array value
ItemsOf(arr) == [i \in 1..Len(arr.kv) |-> arr.kv[i].v]

\* the factors and the radar calculateStrategicConfidence is given
StrategicHashed ==
  {JObj(<<Prop("factors", JArr(BaseList)), Prop("riskRadar", Radar(1, 1))>>),
   JObj(<<Prop("factors", JArr(BaseList)), Prop("riskRadar", Reversed(Radar(1, 1)))>>),
   JObj(<<Prop("factors", JArr([i \in 1..Len(BaseList) |-> Reversed(BaseList[i])])),
          Prop("riskRadar", Radar(1, 1))>>)}

\* the control results calculateDecisionTrust is given: two of one controlId and
\* one severity, and one of another controlId
HashedControls ==
  {Control("c1", TRUE, "LOW"), Control("c2", FALSE, "HIGH"), Control("c2", TRUE, "HIGH")}

\* the input of calculateDecisionTrust: every list of two different control
\* results, and a citation record with its keys in the opposite order
TrustHashed ==
  {JObj(<<Prop("citationIntegrity", Citation(2, 2, 0, 0)),
          Prop("controlResults", JArr(ctl)),
          Prop("evidenceMetrics", Evidence(12, 10, 6))>>) :
     ctl \in {q \in [1..MaxHashed -> HashedControls] :
                \A i, j \in 1..MaxHashed : i # j => q[i] # q[j]}}
    \cup {JObj(<<Prop("citationIntegrity", Reversed(Citation(2, 2, 0, 0))),
                 Prop("controlResults", JArr(<<Control("c1", TRUE, "LOW"),
                                               Control("c2", TRUE, "HIGH")>>)),
                 Prop("evidenceMetrics", Evidence(12, 10, 6))>>)}

\* one call, with what it was given and what it returned
Hashed(fn, input, random, result) ==
  [fn |-> fn, input |-> input, random |-> random, result |-> result]

InitHash ==
  /\ events = <<>>
  /\ currentSequence = 0
  /\ now = 0
  /\ pending = <<>>
  /\ lastResult = NoResult
  /\ tampered = {}
  /\ hasCrypto \in BOOLEAN
  /\ scoreFirst = NoCall
  /\ between = NoCall
  /\ scoreLast = NoCall
  /\ completed = <<>>
  /\ config = DefaultConfig
  /\ hashed = <<>>

\* createDecisionRecord(params)
CreateDecisionRecord ==
  /\ Len(hashed) < MaxHashed
  /\ \E params \in RecordParams, random \in Randoms :
       hashed' = Append(hashed, Hashed("createDecisionRecord", params, random,
                                       createDecisionRecord(params, now, random)))
  /\ UNCHANGED <<chainVars, scoreVars, lumenVars>>

\* new AuditChain(tenantId, sessionId).append(eventType, actor, payload): the
\* chain is the caller's own and is dropped after the call
AppendToNewChain ==
  /\ Len(hashed) < MaxHashed
  /\ \E payload \in HashedPayloads :
       hashed' = Append(hashed,
                        Hashed("append", payload, Undefined,
                               append(<<>>, 0, now,
                                      [eventType |-> "DECISION_CREATED",
                                       actor |-> systemActor("LumenSDK"),
                                       payload |-> payload,
                                       decisionId |-> Undefined,
                                       evaluationId |-> Undefined])))
  /\ UNCHANGED <<chainVars, scoreVars, lumenVars>>

\* calculateStrategicConfidence({ factors, riskRadar })
ScoreStrategic ==
  /\ Len(hashed) < MaxHashed
  /\ \E input \in StrategicHashed :
       hashed' = Append(hashed,
                        Hashed("calculateStrategicConfidence", input, Undefined,
                               calculateStrategicConfidence(
                                 StrategicOptions(ItemsOf(Get(input, "factors")),
                                                  Get(input, "riskRadar"),
                                                  FALSE, FALSE, NoSignal),
                                 now, hasCrypto)))
  /\ UNCHANGED <<chainVars, scoreVars, lumenVars>>

\* calculateDecisionTrust({ input })
ScoreTrust ==
  /\ Len(hashed) < MaxHashed
  /\ \E input \in TrustHashed :
       hashed' = Append(hashed,
                        Hashed("calculateDecisionTrust", input, Undefined,
                               calculateDecisionTrust(
                                 TrustOptions(Get(input, "citationIntegrity"),
                                              ItemsOf(Get(input, "controlResults")),
                                              Get(input, "evidenceMetrics"),
                                              JUndefined, NoSignal),
                                 now, hasCrypto)))
  /\ UNCHANGED <<chainVars, scoreVars, lumenVars>>

NextHash ==
  \/ CreateDecisionRecord
  \/ AppendToNewChain
  \/ ScoreStrategic
  \/ ScoreTrust

SpecHash == InitHash /\ [][NextHash]_vars

(***************************************************************************)
(* The functions of PolicyPack.ts that a caller of the library calls with   *)
(* values of its own: determineSignal and createEvaluation.  A caller makes *)
(* one call.                                                               *)
(***************************************************************************)
\* PolicyPack.ts lines 16-19: EnforcementMode
EnforcementModes == {"ADVISORY", "GUARDED", "STRICT"}

\* a check, as far as determineSignal and createEvaluation read it
Check(checkId, status) == [checkId |-> checkId, status |-> status]

\* the lists of checks the two functions are called with: none, checks that
\* did not fail, and failed ones among others
CheckLists ==
  {<<>>,
   <<Check("phipa-001", "PASSED")>>,
   <<Check("phipa-001", "FAILED")>>,
   <<Check("phipa-001", "ERROR"), Check("phipa-002", "SKIPPED")>>,
   <<Check("phipa-001", "PASSED"), Check("phipa-002", "FAILED")>>,
   <<Check("phipa-003", "FAILED"), Check("phipa-001", "PASSED"), Check("phipa-002", "FAILED")>>}

\* the score breakdowns createEvaluation is called with: the one of
\* Lumen.evaluate and those of Lumen.evaluateWithPack
ScoreBreakdowns ==
  {[finalScore |-> b.finalScore, riskModifier |-> b.riskModifier,
    fatalFlawDetected |-> b.fatalFlawDetected] :
     b \in {calculateLumenScore}
            \cup {calculatePackBasedScore(c, h, 0) : c \in 0..3, h \in 0..1}}

\* determineSignal(lumenScore, checks, enforcementMode)
DetermineSignal ==
  /\ hashed = <<>>
  /\ \E lumenScore \in 0..MaxScore, checks \in CheckLists, enforcementMode \in EnforcementModes :
       hashed' = <<Hashed("determineSignal",
                          [lumenScore |-> lumenScore, checks |-> checks,
                           enforcementMode |-> enforcementMode],
                          Undefined,
                          determineSignal(lumenScore, checks, enforcementMode))>>
  /\ UNCHANGED <<chainVars, scoreVars, lumenVars>>

\* createEvaluation({ scoreBreakdown, checks, enforcementMode, ... })
CreateEvaluation ==
  /\ hashed = <<>>
  /\ \E scoreBreakdown \in ScoreBreakdowns, checks \in CheckLists,
        enforcementMode \in EnforcementModes, random \in Randoms :
       hashed' = <<Hashed("createEvaluation",
                          [scoreBreakdown |-> scoreBreakdown, checks |-> checks,
                           enforcementMode |-> enforcementMode],
                          random,
                          createEvaluation(scoreBreakdown, checks, enforcementMode,
                                           now, random))>>
  /\ UNCHANGED <<chainVars, scoreVars, lumenVars>>

NextPolicy ==
  \/ DetermineSignal
  \/ CreateEvaluation

SpecPolicy == InitHash /\ [][NextPolicy]_vars

(***************************************************************************)
(* LumenAPIClient (api client): request and makeRequest.  The client has   *)
(* no field it writes after its constructor, and request shares nothing    *)
(* with another call: it is a function of what its attempts meet.          *)
(***************************************************************************)
\* what one attempt meets: the 'error' or the 'timeout' event of the socket,
\* or the end of a response with its status and its body ("" for none, "json"
\* for a body JSON.parse reads, "text" for one it does not)
Response(event, statusCode, data) == [event |-> event, statusCode |-> statusCode, data |-> data]

\* new LumenAPIError(message, statusCode, code), rejected
LumenAPIError(statusCode, code) ==
  [resolved |-> FALSE, name |-> "LumenAPIError", statusCode |-> statusCode, code |-> code]

\* LumenAPIClient.makeRequest: how the promise of one attempt settles.  With a
\* body JSON.stringify throws on, the executor throws before the request is
\* sent and the promise is rejected with that TypeError (it has no statusCode)
makeRequest(response, bodySerialisable) ==
  IF ~bodySerialisable
  THEN [resolved |-> FALSE, name |-> "TypeError", statusCode |-> -1, code |-> Undefined]
  ELSE IF response.event = "error" THEN LumenAPIError(0, "NETWORK_ERROR")
  ELSE IF response.event = "timeout" THEN LumenAPIError(0, "TIMEOUT")
  ELSE IF response.data = ""
  THEN (IF response.statusCode >= 200 /\ response.statusCode < 300
        THEN [resolved |-> TRUE, name |-> Undefined, statusCode |-> response.statusCode,
              code |-> Undefined]
        ELSE LumenAPIError(response.statusCode, "EMPTY_RESPONSE"))
  ELSE IF response.data = "text" THEN LumenAPIError(response.statusCode, "INVALID_JSON")
  ELSE IF response.statusCode >= 400
  THEN LumenAPIError(response.statusCode, "HTTP_" \o NumStr(response.statusCode))
  ELSE [resolved |-> TRUE, name |-> Undefined, statusCode |-> response.statusCode,
        code |-> Undefined]

\* part_005 line 123
maxRetries == 1

\* LumenAPIClient.request from the attempt of the loop counter on: the
\* attempts made, the delays waited, and what the call resolved with or threw
RECURSIVE RequestFrom(_, _, _, _, _)
RequestFrom(responses, bodySerialisable, attempt, attempts, delays) ==
  IF attempt > maxRetries
  THEN [attempts |-> attempts, delays |-> delays, settled |-> attempts[Len(attempts)]]
  ELSE LET settled == makeRequest(responses[attempt + 1], bodySerialisable)
       IN IF settled.resolved
          THEN [attempts |-> Append(attempts, settled), delays |-> delays,
                settled |-> settled]
          ELSE IF settled.name = "LumenAPIError" /\ settled.statusCode < 500
          THEN [attempts |-> Append(attempts, settled), delays |-> delays,
                settled |-> settled]
          ELSE RequestFrom(responses, bodySerialisable, attempt + 1,
                           Append(attempts, settled),
                           IF attempt < maxRetries
                           THEN Append(delays, 1000 * (2 ^ attempt)) ELSE delays)

\* LumenAPIClient.request(method, path, body)
request(responses, bodySerialisable) ==
  RequestFrom(responses, bodySerialisable, 0, <<>>, <<>>)

\* what the API meets at one attempt
Responses ==
  {Response("error", 0, ""), Response("timeout", 0, "")}
    \cup {Response("end", statusCode, "json") : statusCode \in {200, 400, 404, 429, 500, 503}}
    \cup {Response("end", 200, ""), Response("end", 200, "text"), Response("end", 502, "text"),
          Response("end", 204, ""), Response("end", 500, "")}

\* client.evaluate(packId, context) and the other calls of request
Request ==
  /\ hashed = <<>>
  /\ \E responses \in [1..MaxResponses -> Responses], bodySerialisable \in BOOLEAN :
       hashed' = <<Hashed("request",
                          [responses |-> responses, bodySerialisable |-> bodySerialisable],
                          Undefined, request(responses, bodySerialisable))>>
  /\ UNCHANGED <<chainVars, scoreVars, lumenVars>>

SpecClient == InitHash /\ [][Request]_vars

(***************************************************************************)
(* Lumen.evaluateWithPack called once on a new instance, with what it was   *)
(* given kept beside what it returned.                                     *)
(***************************************************************************)
\* a PHIPA context that passes every rule: PHI of a patient who consented,
\* used by a provider for care
CompliantContext ==
  [EmptyContext EXCEPT !.phiPresent = "true", !.phiTypes = <<"diagnosis">>,
                       !.collectedFromIndividual = "true", !.purpose = "care",
                       !.hasExplicitConsent = "true", !.consentType = "express",
                       !.isHealthcareProvision = "true",
                       !.userRole = "healthcare_provider",
                       !.safeguards = <<"Administrative", "physical", "encryption">>,
                       !.encryptionAtRest = "true",
                       !.accessControlsImplemented = "true",
                       !.retentionDays = <<3650>>]

\* the PHIPA contexts evaluateWithPack is called with: none of the fields, no
\* PHI, and the compliant context with each choice of the fields the consent
\* rule and the disclosure rule read
PhipaContexts ==
  {EmptyContext, [EmptyContext EXCEPT !.phiPresent = "false"]}
    \cup {[CompliantContext EXCEPT !.hasExplicitConsent = consent, !.consentType = type,
                                   !.isHealthcareProvision = provision, !.userRole = role,
                                   !.isTPO = tpo] :
            consent \in {"true", "false"}, type \in {"deemed", "express", Undefined},
            provision \in {"true", "false"},
            role \in {"healthcare_provider", "custodian"}, tpo \in {"true", Undefined}}

\* lumen.evaluateWithPack(packId, context), for a context given by the rules it fails
CallEvaluateWithPack ==
  /\ hashed = <<>>
  /\ \E packId \in PackIds, context \in PackContexts, random \in Randoms :
       \E apiResult \in IF config.apiKey THEN ApiResponses ELSE {NoApiResponse} :
         hashed' = <<Hashed("evaluateWithPack",
                            [config |-> config, packId |-> packId, ctx |-> EmptyContext,
                             context |-> context, apiResult |-> apiResult],
                            random,
                            evaluateWithPack(config, now, packId, context, apiResult,
                                             random))>>
  /\ UNCHANGED <<chainVars, scoreVars, lumenVars>>

\* lumen.evaluateWithPack('ca-on-phipa', ctx), for a PHIPA context
CallEvaluatePhipa ==
  /\ hashed = <<>>
  /\ \E ctx \in PhipaContexts, random \in Randoms :
       \E apiResult \in IF config.apiKey THEN ApiResponses ELSE {NoApiResponse} :
         hashed' = <<Hashed("evaluateWithPack",
                            [config |-> config, packId |-> "ca-on-phipa", ctx |-> ctx,
                             context |-> PhipaContext(ctx), apiResult |-> apiResult],
                            random,
                            evaluateWithPack(config, now, "ca-on-phipa", PhipaContext(ctx),
                                             apiResult, random))>>
  /\ UNCHANGED <<chainVars, scoreVars, lumenVars>>

NextPack ==
  \/ CallEvaluateWithPack
  \/ CallEvaluatePhipa

SpecPack == InitLumen /\ [][NextPack]_vars

(***************************************************************************)
(* Properties of the audit chain.                                          *)
(***************************************************************************)
IsPrefix(a, b) == Len(a) <= Len(b) /\ SubSeq(b, 1, Len(a)) = a

MinOf(S) == CHOOSE x \in S : \A y \in S : x <= y

\* C1: after any sequence of append calls on a fresh chain the first event has
\* previousHash "GENESIS", every later event has the payloadHash of the event
\* before it as its previousHash, and verifyIntegrity() returns valid = true.
C1_ChainLinked ==
  /\ Len(events) > 0 => events[1].previousHash = "GENESIS"
  /\ \A i \in 2..Len(events) : events[i].previousHash = events[i - 1].payloadHash
  /\ verifyIntegrity(events).valid
  /\ lastResult.op = "verifyIntegrity" => lastResult.valid /\ lastResult.brokenAt = -1

\* three events are stored and verifyIntegrity has answered
C1_Witness ==
  /\ Len(events) = 3
  /\ lastResult.op = "verifyIntegrity"
  /\ lastResult.valid

\* C2: once the payload of a stored event was mutated (no hash recomputed),
\* verifyIntegrity() returns valid = false with brokenAt at the first mutated event.
C2_TamperDetected ==
  (tampered # {} /\ lastResult.op = "verifyIntegrity")
    => (~lastResult.valid /\ lastResult.brokenAt = MinOf(tampered))

\* C3: the chain is append-only: every step leaves the event list a prefix of the
\* new list, and a step that changes the list or the sequence counter is an append
\* (getEvents, getEventsForDecision, verifyIntegrity and export change neither).
C3_AppendOnly ==
  [][/\ IsPrefix(events, events')
     /\ (events' # events \/ currentSequence' # currentSequence)
          => (lastResult'.op = "append" /\ Len(pending') < Len(pending))
     /\ lastResult'.op \in {"getEvents", "getEventsForDecision", "verifyIntegrity", "export"}
          => (events' = events /\ currentSequence' = currentSequence)]_vars

\* an export answered on a chain of two events
C3_Witness ==
  /\ Len(events) >= 2
  /\ lastResult.op = "export"
  /\ Len(lastResult.out) = Len(events)

\* C27: the chain is the sole owner of its stored events: whatever a caller
\* does with the values it got from the chain or passed to it (the array and
\* the event objects getEvents, getEventsForDecision and append return, the
\* payload object it gave to append), every event stored in the chain keeps
\* the content it was stored with.
C27_SoleOwner ==
  [][\A i \in 1..Len(events) : i <= Len(events') /\ events'[i] = events[i]]_vars

\* C4: the event stored at index i has sequence number i, also after append calls
\* that threw before storing an event.
C4_SequenceIsIndex ==
  \A i \in 1..Len(events) : events[i].sequence = i - 1

\* C5: under every interleaving of concurrently issued appends no two stored events
\* have the same sequence number or the same previousHash, and each event's
\* previousHash is the payloadHash of the event stored immediately before it.
C5_NoFork ==
  /\ \A i, j \in 1..Len(events) :
       i # j => /\ events[i].sequence # events[j].sequence
                /\ events[i].previousHash # events[j].previousHash
  /\ \A i \in 2..Len(events) : events[i].previousHash = events[i - 1].payloadHash

(***************************************************************************)
(* Properties of the scoring kernel.                                       *)
(***************************************************************************)
\* the calls of the kernel made so far
MadeCalls == {c \in {scoreFirst, between, scoreLast} : c.fn # "none"}

StrategicCalls == {c \in MadeCalls : c.fn = "calculateStrategicConfidence"}

TrustCalls == {c \in MadeCalls : c.fn = "calculateDecisionTrust"}

\* C7: two calls of calculateStrategicConfidence with equal options return the
\* same finalScore and the same inputsHash, and two calls of
\* calculateDecisionTrust with equal options return the same overall and the
\* same inputsHash, whatever the clock read and whatever was computed between
\* them (a score that is NaN both times counts as the same score).
C7_Deterministic ==
  /\ \A a \in StrategicCalls : \A b \in StrategicCalls :
       a.options = b.options =>
         /\ a.result.finalScore = b.result.finalScore
         /\ a.result.provenance.inputsHash = b.result.provenance.inputsHash
  /\ \A a \in TrustCalls : \A b \in TrustCalls :
       a.options = b.options =>
         /\ a.result.overall = b.result.overall
         /\ a.result.inputsHash = b.result.inputsHash
         /\ a.result.provenance.inputsHash = b.result.provenance.inputsHash

\* a call was repeated at a later time, after a call of the other function
C7_Witness ==
  /\ scoreLast.fn # "none"
  /\ between.fn # "none"
  /\ between.fn # scoreFirst.fn
  /\ scoreLast.options = scoreFirst.options
  /\ scoreLast.result.calculatedAt # scoreFirst.result.calculatedAt

C8_Bounded ==
  /\ \A c \in StrategicCalls :
       /\ ~c.result.finalScore.nan
       /\ c.result.finalScore.v >= 1
       /\ c.result.finalScore.v <= 100
       /\ Len(c.options.factors) = 0 => c.result.finalScore.v = 50
  /\ \A c \in TrustCalls :
       /\ ~c.result.overall.nan
       /\ c.result.overall.v >= 0
       /\ c.result.overall.v <= 100

\* the modifier of a result whose risk modifier is the fatal-flaw value 0.42:
\* 0.42 times the PHIPA modifier times the Monte Carlo degradation
FatalModifier(options) ==
  DblMul(DblMul(Dec(42),
                calculatePhipaModifier(options.factors, options.phiInvolved).modifier),
         IF options.monteCarloSignal.given
         THEN calculateVarianceDegradation(options.monteCarloSignal)
         ELSE DblInt(1))

\* C9: when calculateStrategicConfidence is called with fatalFlawDetected = true,
\* the risk modifier that enters the modifier of the result is 0.42, for every
\* risk radar and every factor list, the empty one included.
C9_FatalModifier ==
  \A c \in StrategicCalls :
    c.options.fatalFlawDetected => c.result.riskModifier = FatalModifier(c.options)

\* C10: calculateStrategicConfidence called with fatalFlawDetected = true returns
\* a finalScore of at most 42.
C10_FatalCap ==
  \A c \in StrategicCalls :
    c.options.fatalFlawDetected =>
      ~c.result.finalScore.nan /\ c.result.finalScore.v <= 42

\* C11: a Monte Carlo signal that isVarianceUnknown calls unknown (runs = 0, or
\* the method STUB) gets a multiplier below 1.0 from calculateVarianceDegradation,
\* 0.75 when runs = 0, and no signal gets a multiplier above 1.0.
C11_UnknownPenalised ==
  \A c \in MadeCalls :
    c.options.monteCarloSignal.given =>
      /\ isVarianceUnknown(c.options.monteCarloSignal)
           => DblLess(calculateVarianceDegradation(c.options.monteCarloSignal), DblInt(1))
      /\ c.options.monteCarloSignal.runs = 0
           => calculateVarianceDegradation(c.options.monteCarloSignal) = Dec(75)
      /\ ~DblLess(DblInt(1), calculateVarianceDegradation(c.options.monteCarloSignal))

\* the three modifiers of calculateStrategicConfidence that differ from 1.0, in
\* the order they are applied in
NonNeutral(options) ==
  SelectSeq(<<[name |-> "risk",
              modifier |-> calculateRiskModifier(options.riskRadar,
                                                 options.fatalFlawDetected)],
             [name |-> "phipa",
              modifier |-> calculatePhipaModifier(options.factors,
                                                  options.phiInvolved).modifier],
             [name |-> "variance",
              modifier |-> IF options.monteCarloSignal.given
                           THEN calculateVarianceDegradation(options.monteCarloSignal)
                           ELSE DblInt(1)]>>,
            LAMBDA m : m.modifier # DblInt(1))

\* C12: calculateStrategicConfidence, given factors, returns one audit note for
\* each of its three modifiers (risk radar, PHIPA hard gate, Monte Carlo
\* degradation) that is not 1.0, in that order: the note of the hard gate is the
\* one calculatePhipaModifier returned and the note of the degradation is the
\* last one; auditNotes is empty only if all three modifiers are 1.0.
C12_ModifiersNoted ==
  \A c \in StrategicCalls :
    Len(c.options.factors) > 0 =>
      /\ Len(c.result.provenance.auditNotes) = Len(NonNeutral(c.options))
      /\ \A i \in 1..MinInt(Len(NonNeutral(c.options)), Len(c.result.provenance.auditNotes)) :
           /\ NonNeutral(c.options)[i].name = "phipa"
                => c.result.provenance.auditNotes[i]
                     = calculatePhipaModifier(c.options.factors,
                                              c.options.phiInvolved).auditNote
           /\ NonNeutral(c.options)[i].name = "variance"
                => c.result.provenance.auditNotes[i]
                     = MonteCarloNote(calculateVarianceDegradation(c.options.monteCarloSignal))

\* the confidences, from the strongest to the weakest
ConfidenceOrder == <<"Strong", "Moderate", "Limited", "Unverifiable">>

\* the factor list with the confidence of factor i replaced
WithConfidence(factors, i, confidence) ==
  [factors EXCEPT ![i] = Factor(Get(factors[i], "factorName").s, confidence)]

\* C13: the PHIPA hard-gate modifier is never above 1.00, it is 1.00 when PHI is
\* not involved, and with PHI involved a weaker confidence of a factor (Strong >
\* Moderate > Limited > Unverifiable) never gives a larger modifier than a
\* stronger confidence of that factor in the same list.  It is stated of the
\* options of the first call, which the repeated call shares.
C13_PhipaMonotone ==
  \A options \in {c.options : c \in {d \in StrategicCalls : d = scoreFirst}} :
    /\ ~DblLess(DblInt(1), calculatePhipaModifier(options.factors,
                                                  options.phiInvolved).modifier)
    /\ ~options.phiInvolved
         => calculatePhipaModifier(options.factors, FALSE).modifier = DblInt(1)
    /\ options.phiInvolved =>
         \A i \in 1..Len(options.factors) :
           LET modifier == [k \in 1..Len(ConfidenceOrder) |->
                              calculatePhipaModifier(
                                WithConfidence(options.factors, i, ConfidenceOrder[k]),
                                TRUE).modifier]
           IN \A hi \in 1..Len(ConfidenceOrder) : \A lo \in hi..Len(ConfidenceOrder) :
                ~DblLess(modifier[hi], modifier[lo])

\* a call with PHI involved whose only factor is a regulatory one of Moderate
\* confidence returned the modifier 0.90, and its repetition is in
C13_Witness ==
  /\ scoreFirst.fn = "calculateStrategicConfidence"
  /\ scoreFirst.options.phiInvolved
  /\ scoreFirst.options.factors = <<Factor("regulatory review", "Moderate")>>
  /\ scoreFirst.result.riskModifier = Dec(90)
  /\ scoreLast.fn # "none"

(***************************************************************************)
(* Properties of a Lumen instance.                                         *)
(***************************************************************************)
\* the chain holds a DECISION_CREATED event and, after it, an
\* EVALUATION_COMPLETED event that both carry the decisionId
LoggedPair(decisionId) ==
  \E j \in 1..Len(events) : \E k \in (j + 1)..Len(events) :
    /\ events[j].eventType = "DECISION_CREATED"
    /\ events[j].decisionId = decisionId
    /\ events[k].eventType = "EVALUATION_COMPLETED"
    /\ events[k].decisionId = decisionId

\* C6: for every evaluation the instance has returned from, through evaluate or
\* through evaluateWithPack, the session audit chain holds an event for the
\* created decision record and, after it, an event for the evaluation, both
\* with the decisionId of that evaluation.
C6_EvaluationsLogged ==
  \A i \in 1..Len(completed) : LoggedPair(completed[i].decisionId)

\* the decisionIds of the calls of evaluate the instance returned from, in the
\* order of the calls
Evaluated ==
  LET calls == SelectSeq(completed, LAMBDA c : c.op = "evaluate")
  IN [j \in 1..Len(calls) |-> calls[j].decisionId]

\* C29, for the calls that returned: after k calls of evaluate on one instance
\* have returned, in whatever way they were started, the audit trail holds
\* exactly 1 + 2k events: SESSION_STARTED, then for each call in turn its
\* DECISION_CREATED event and next to it its EVALUATION_COMPLETED event with
\* the same decisionId; and the chain verifies.
C29_TrailOfEvaluations ==
  /\ Len(events) = 1 + (2 * Len(Evaluated))
  /\ events[1].eventType = "SESSION_STARTED"
  /\ \A j \in 1..Len(Evaluated) :
       /\ events[2 * j].eventType = "DECISION_CREATED"
       /\ events[2 * j].decisionId = Evaluated[j]
       /\ events[(2 * j) + 1].eventType = "EVALUATION_COMPLETED"
       /\ events[(2 * j) + 1].decisionId = Evaluated[j]
  /\ verifyIntegrity(events).valid
  /\ lastResult.op = "verifyAuditIntegrity" => lastResult.valid

\* two calls of evaluate returned, and the chain was verified after them
C29_Witness ==
  /\ Len(Evaluated) = 2
  /\ Len(events) = 5
  /\ lastResult.op = "verifyAuditIntegrity"
  /\ lastResult.valid

\* C29 as stated, of every call: each call of evaluate adds two events to the
\* audit trail.
C29_EveryCallLogged ==
  [][(lastResult'.op = "evaluate" /\ lastResult' # lastResult)
       => Len(events') = Len(events) + 2]_vars

(***************************************************************************)
(* Properties of the evaluation against a policy pack.                     *)
(***************************************************************************)
\* the last call was evaluateWithPack and it returned what the bundled rules
\* gave (the decision record of the hosted path has another workflowId)
BundledResult ==
  /\ lastResult.op = "evaluateWithPack"
  /\ ~lastResult.threw
  /\ lastResult.out.decisionRecord.workflowId = "pack-evaluation"

\* C17: a result of the bundled rules holds exactly one outcome for each rule
\* of the pack, in the order of the pack: packResults is as long as pack.rules
\* and packResults[i].ruleId = pack.rules[i].id, whichever rules failed, the
\* critical ones included.
C17_OneOutcomePerRule ==
  BundledResult =>
    LET pack == bundledPacks[lastResult.out.decisionRecord.policyContext.packId]
        packResults == lastResult.out.packResults
    IN /\ Len(packResults) = Len(pack)
       /\ \A i \in 1..Len(pack) : packResults[i].ruleId = pack[i].id

\* a result of the PHIPA rules whose first rule, a critical one, failed, with
\* outcomes for the rules after it, passed ones and failed ones
C17_Witness ==
  /\ BundledResult
  /\ lastResult.out.decisionRecord.policyContext.packId = "ca-on-phipa"
  /\ lastResult.out.packResults[1].severity = "critical"
  /\ ~lastResult.out.packResults[1].passed
  /\ ~lastResult.out.packResults[4].passed
  /\ lastResult.out.packResults[Len(caOnPhipa)].passed
  /\ lastResult.out.summary.criticalFailures >= 2

\* C18: a call of evaluateWithPack in which the evaluator of a rule throws
\* still completes, with that rule recorded as ERROR and the rules after it
\* evaluated: no call is rejected with what an evaluator threw.
C18_EvaluatorErrorRecorded ==
  lastResult.op = "evaluateWithPack" =>
    ~(lastResult.threw /\ lastResult.out = PackError("evaluator", "").out)

\* the step is a call of evaluateWithPack that was rejected before the loop
\* over the rules: evaluateWithPack is the only operation that leaves this
\* result, and the clock does not move in it
RejectedBeforeRules ==
  /\ lastResult'.op = "evaluateWithPack"
  /\ lastResult'.threw
  /\ lastResult'.out.message # PackError("evaluator", "").out.message
  /\ now' = now

\* C19: a call of evaluateWithPack with an id no bundled pack has, which the
\* hosted API did not answer, is rejected: it never returns a result of bundled
\* rules.  The rejection holds the error alone (no rule outcome, no score, no
\* decision record), and the step leaves the audit chain and the rest of the
\* state of the instance as they were.
C19_UnknownPackRejected ==
  [][/\ (lastResult'.op = "evaluateWithPack" /\ ~lastResult'.threw
            /\ lastResult'.out.decisionRecord.policyContext.packId \notin DOMAIN bundledPacks)
          => lastResult'.out.decisionRecord.workflowId = "pack-evaluation-api"
     /\ RejectedBeforeRules =>
          /\ DOMAIN lastResult'.out = {"name", "message"}
          /\ UNCHANGED <<events, currentSequence, pending, tampered, completed, config>>]_vars

\* a call with an id nothing has was rejected by line 498, on an instance that
\* has returned from an evaluation before
C19_Witness ==
  /\ lastResult.op = "evaluateWithPack"
  /\ lastResult.threw
  /\ lastResult.out = PackError("throw", "ca-bc-pipa").out
  /\ Len(completed) > 0
  /\ Len(events) > 1

(***************************************************************************)
(* Properties of the hashing functions.                                    *)
(***************************************************************************)
\* two values are equal as structures: objects with the same keys and, key by
\* key, values that are; arrays with, place by place, elements that are
RECURSIVE SameStructure(_, _)
SameStructure(a, b) ==
  IF a.t # b.t \/ Len(a.kv) # Len(b.kv) THEN FALSE
  ELSE IF a.t = "obj"
  THEN /\ {a.kv[i].k : i \in 1..Len(a.kv)} = {b.kv[i].k : i \in 1..Len(b.kv)}
       /\ \A i \in 1..Len(a.kv) : SameStructure(a.kv[i].v, Get(b, a.kv[i].k))
  ELSE IF a.t = "arr" THEN \A i \in 1..Len(a.kv) : SameStructure(a.kv[i].v, b.kv[i].v)
  ELSE a = b

\* the hashes a call returned, none when it threw
HashesOf(h) ==
  CASE h.fn = "createDecisionRecord" ->
         IF h.result.threw THEN <<>>
         ELSE <<Get(Get(h.result.record, "hashes"), "inputsCanonicalHash").s,
                Get(Get(h.result.record, "hashes"), "outputsCanonicalHash").s,
                Get(Get(h.result.record, "hashes"), "recordHash").s>>
    [] h.fn = "append" ->
         IF h.result.threw THEN <<>> ELSE <<h.result.returned[1].payloadHash>>
    [] h.fn = "calculateStrategicConfidence" -> <<h.result.provenance.inputsHash>>
    [] OTHER -> <<h.result.inputsHash>>

\* C14: two calls of one hashing function (createDecisionRecord, append on a new
\* chain, calculateStrategicConfidence, calculateDecisionTrust) at one time, with
\* inputs that are equal as structures whatever the order their keys were
\* inserted in, return the same hashes.
C14_KeyOrderIndependent ==
  \A i \in 1..Len(hashed) : \A j \in 1..Len(hashed) :
    (/\ hashed[i].fn = hashed[j].fn
     /\ hashed[i].random = hashed[j].random
     /\ SameStructure(hashed[i].input, hashed[j].input))
      => HashesOf(hashed[i]) = HashesOf(hashed[j])

\* the text hashed for the recordHash of a record that was returned
RecordText(h) ==
  CanonicalText(RecordObject(h.input, Get(h.result.record, "decisionId").s,
                             Get(h.result.record, "createdAt").s)).out

\* C15: two records created at one time with one id from parameters that differ
\* as structures have different canonical texts for recordHash, and different
\* canonical texts for inputsCanonicalHash (outputsCanonicalHash) when their
\* inputs (aiOutputs) differ.
C15_Distinguishes ==
  \A i \in 1..Len(hashed) : \A j \in 1..Len(hashed) :
    (/\ hashed[i].fn = "createDecisionRecord"
     /\ hashed[j].fn = "createDecisionRecord"
     /\ ~hashed[i].result.threw
     /\ ~hashed[j].result.threw
     /\ hashed[i].random = hashed[j].random
     /\ ~SameStructure(hashed[i].input, hashed[j].input))
      => /\ RecordText(hashed[i]) # RecordText(hashed[j])
         /\ ~SameStructure(Get(hashed[i].input, "inputs"), Get(hashed[j].input, "inputs"))
              => CanonicalText(Get(hashed[i].input, "inputs")).out
                   # CanonicalText(Get(hashed[j].input, "inputs")).out
         /\ ~SameStructure(Get(hashed[i].input, "aiOutputs"), Get(hashed[j].input, "aiOutputs"))
              => CanonicalText(Get(hashed[i].input, "aiOutputs")).out
                   # CanonicalText(Get(hashed[j].input, "aiOutputs")).out

\* one list holds the elements of the other, each as often
IsPermutation(a, b) ==
  /\ Len(a) = Len(b)
  /\ \A k \in 1..Len(a) :
       Cardinality({m \in 1..Len(a) : a[m] = a[k]})
         = Cardinality({m \in 1..Len(b) : b[m] = a[k]})

\* C16: two calls of calculateDecisionTrust whose inputs differ only in the
\* order of controlResults return the same inputsHash and the same overall.
C16_ControlOrderIndependent ==
  \A i \in 1..Len(hashed) : \A j \in 1..Len(hashed) :
    (/\ hashed[i].fn = "calculateDecisionTrust"
     /\ hashed[j].fn = "calculateDecisionTrust"
     /\ Get(hashed[i].input, "citationIntegrity") = Get(hashed[j].input, "citationIntegrity")
     /\ Get(hashed[i].input, "evidenceMetrics") = Get(hashed[j].input, "evidenceMetrics")
     /\ IsPermutation(ItemsOf(Get(hashed[i].input, "controlResults")),
                      ItemsOf(Get(hashed[j].input, "controlResults"))))
      => /\ hashed[i].result.inputsHash = hashed[j].result.inputsHash
         /\ hashed[i].result.overall = hashed[j].result.overall

\* AuditEvent.ts lines 353-407: the fields of a DecisionRecord that are not
\* optional and that createDecisionRecord does not fill in
RequiredParams ==
  {"tenantId", "subjectId", "workflowId", "requestContext", "inputs", "aiOutputs",
   "humanAction", "policyContext"}

\* C20: createDecisionRecord returns a record only for parameters that have
\* every required field and no raw generated content in aiOutputs; for other
\* parameters it throws.
C20_FailsFast ==
  \A i \in 1..Len(hashed) :
    (hashed[i].fn = "createDecisionRecord" /\ ~hashed[i].result.threw)
      => /\ \A k \in RequiredParams : Get(hashed[i].input, k).t # "undefined"
         /\ Get(Get(hashed[i].input, "aiOutputs"), "generatedContent").t = "undefined"

(***************************************************************************)
(* Properties of the signal and of the evaluation.                         *)
(***************************************************************************)
\* the calls of a function the caller made
CallsOf(fn) == {hashed[i] : i \in {j \in 1..Len(hashed) : hashed[j].fn = fn}}

\* C22: in ADVISORY mode the signal is never BLOCK: whatever the score and the
\* checks, determineSignal returns ALLOW or WARN.
C22_AdvisoryNeverBlocks ==
  \A h \in CallsOf("determineSignal") :
    h.input.enforcementMode = "ADVISORY" => h.result \in {"ALLOW", "WARN"}

\* a score below 40 with a failed check, in ADVISORY mode, gave WARN
C22_Witness ==
  \E h \in CallsOf("determineSignal") :
    /\ h.input.enforcementMode = "ADVISORY"
    /\ h.input.lumenScore < 40
    /\ \E i \in 1..Len(h.input.checks) : h.input.checks[i].status = "FAILED"
    /\ h.result = "WARN"

\* how severe a signal is
Severity(signal) == CASE signal = "ALLOW" -> 0 [] signal = "WARN" -> 1 [] signal = "BLOCK" -> 2

C25_ReasonsExplain ==
  \A h \in CallsOf("createEvaluation") :
    LET failed == SelectSeq(h.input.checks, LAMBDA c : c.status = "FAILED")
        reasons == h.result.reasons
        forChecks == SelectSeq(reasons, LAMBDA r : r.severity = "ERROR")
        others == SelectSeq(reasons, LAMBDA r : r.severity # "ERROR" /\ r.code # "FATAL_FLAW")
    IN /\ Len(forChecks) = Len(failed)
       /\ \A i \in 1..Len(failed) : forChecks[i].ruleId = failed[i].checkId
       /\ h.input.scoreBreakdown.fatalFlawDetected
            <=> (\E i \in 1..Len(reasons) : reasons[i].code = "FATAL_FLAW")
       /\ DblLess(h.result.scoreBreakdown.riskModifier, DblInt(1)) => others # <<>>

(***************************************************************************)
(* Properties of evaluateWithPack as a function of what it is given.       *)
(***************************************************************************)
\* the result holds what the bundled rules gave
FromBundledRules(result) ==
  ~result.threw /\ result.out.decisionRecord.workflowId = "pack-evaluation"

\* two results agree: both are rejected with the same error, or both hold the
\* same rule outcomes, summary, score and passed flag
SameOutcome(a, b) ==
  /\ a.threw = b.threw
  /\ a.threw => a.out = b.out
  /\ ~a.threw => /\ a.out.packResults = b.out.packResults
                 /\ a.out.summary = b.out.summary
                 /\ a.out.scoreBreakdown = b.out.scoreBreakdown
                 /\ a.out.passed = b.out.passed

\* C21: on an instance with an API client whose hosted evaluation failed,
\* evaluateWithPack gives what it gives for the same pack id and context on an
\* instance with no API key; and the bundled rules are evaluated only when
\* there was no hosted result.
C21_FailsOver ==
  \A h \in CallsOf("evaluateWithPack") :
    /\ (h.input.config.apiKey /\ ~h.input.apiResult.ok)
         => SameOutcome(h.result,
                        evaluateWithPack([h.input.config EXCEPT !.apiKey = FALSE], now,
                                         h.input.packId, h.input.context, NoApiResponse,
                                         h.random))
    /\ FromBundledRules(h.result) => ~(h.input.config.apiKey /\ h.input.apiResult.ok)

\* an instance with an API key whose hosted call failed returned the outcome
\* of the PHIPA rules, with a failure among them
C21_Witness ==
  \E h \in CallsOf("evaluateWithPack") :
    /\ h.input.config.apiKey
    /\ ~h.input.apiResult.ok
    /\ h.input.packId = "ca-on-phipa"
    /\ FromBundledRules(h.result)
    /\ h.result.out.summary.failed > 0

\* C24: PHI disclosed without consent gates the score: when the consent rule
\* (s.15) or the disclosure rule (s.18) of the PHIPA pack fails for a context,
\* the final score of the result is at most 39, whatever the other fields.
C24_ConsentGates ==
  \A h \in CallsOf("evaluateWithPack") :
    (/\ h.input.packId = "ca-on-phipa"
     /\ FromBundledRules(h.result)
     /\ \E i \in 1..Len(h.result.out.packResults) :
          /\ h.result.out.packResults[i].ruleId
               \in {"phipa-s15-consent-required", "phipa-s18-disclosure-rules"}
          /\ ~h.result.out.packResults[i].passed)
      => h.result.out.scoreBreakdown.finalScore <= 39

\* the failed outcomes of one severity among the outcomes of the rules
FailedOf(packResults, severity) ==
  Cardinality({i \in 1..Len(packResults) :
                 ~packResults[i].passed /\ packResults[i].severity = severity})

\* C30: the summary of every result of evaluateWithPack is consistent, from
\* the bundled rules and from the hosted API alike: passed + failed =
\* totalRules = the number of packResults, failed is the sum of the three
\* failure counters, each counter is the number of failed packResults of its
\* severity, and the result passed exactly when criticalFailures = 0.
C30_SummaryConsistent ==
  \A h \in CallsOf("evaluateWithPack") :
    ~h.result.threw =>
      LET summary == h.result.out.summary
          packResults == h.result.out.packResults
      IN /\ summary.passed + summary.failed = summary.totalRules
         /\ summary.totalRules = Len(packResults)
         /\ summary.failed = (summary.criticalFailures + summary.highFailures)
                                + summary.mediumFailures
         /\ summary.criticalFailures = FailedOf(packResults, "critical")
         /\ summary.highFailures = FailedOf(packResults, "high")
         /\ summary.mediumFailures = FailedOf(packResults, "medium")
         /\ h.result.out.passed <=> (summary.criticalFailures = 0)

(***************************************************************************)
(* Properties of the API client.                                           *)
(***************************************************************************)
\* the attempt failed with a 5xx response, a connection error or a timeout
RetryableFailure(response) ==
  \/ response.event \in {"error", "timeout"}
  \/ (response.event = "end" /\ response.statusCode >= 500)

\* C26: request makes at most maxRetries + 1 = 2 attempts and, when none
\* resolved, throws the error of the last one; after a failed first attempt it
\* makes a second one exactly when the failure was a 5xx response or a network
\* failure (a connection error or a timeout), and never after a 4xx response.
C26_RetryPolicy ==
  \A h \in CallsOf("request") :
    h.input.bodySerialisable =>
      LET attempts == h.result.attempts
      IN /\ Len(attempts) \in 1..(maxRetries + 1)
         /\ h.result.settled = attempts[Len(attempts)]
         /\ \A i \in 1..(Len(attempts) - 1) : ~attempts[i].resolved
         /\ ~attempts[1].resolved =>
              (Len(attempts) = 2 <=> RetryableFailure(h.input.responses[1]))
         /\ (~attempts[1].resolved /\ h.input.responses[1].statusCode \in 400..499)
              => Len(attempts) = 1
====
